---- MODULE Spec2Model ----
(***************************************************************************)
(* AstraGuard: conjunction screening, trend gate and maneuver planner.     *)
(*                                                                         *)
(* The specifications that share the module:                               *)
(*   SpecGate      classify_trend_gate / compute_defer_until_utc and the   *)
(*                 API re-validation of defer_until_utc;                   *)
(*   SpecPlan      plan_min_delta_v and the driver's storing of the plan;  *)
(*   SpecScreen    a screening run from the fetched catalog rows to        *)
(*                 top_conjunctions.json;                                  *)
(*   SpecScoreLoop SpecScreen, and the scoring loop on refined rows that   *)
(*                 name the larger id first.                               *)
(*   SpecArtifacts screening runs and autonomy-loop requests writing one   *)
(*                 artifact directory;                                     *)
(*   SpecHash      candidate_pairs_by_timestep on small position grids;    *)
(*   SpecLoad      load_latest_tles on small stores, in every row order;   *)
(*   SpecTimes     _build_times of the coarse propagation;                 *)
(*   SpecSamples   _build_sample_times of the local Pc series;             *)
(*   SpecPc        pc_assumed_encounter_isotropic and the scored fields;   *)
(*   SpecJoin      the API's join of plan hints to the top events;         *)
(*   SpecCli       the control flow of a run down to the refinement        *)
(*                 loop, and SpecCliFair, the same under weak fairness;    *)
(*   SpecPlanStage the trend_and_plans stage and the writes after it.      *)
(*                                                                         *)
(* Numbers.  Python floats are modelled as exact numbers: instants are     *)
(* integer ticks (TicksPerSecond ticks in a second, so that an instant can *)
(* carry a fractional second), an ISO "...Z" string is the whole second it *)
(* names, the gate's probabilities are integers in units of 1e-6 and the   *)
(* scored pc_assumed in units of 1e-9, pc_stability is in hundredths, and  *)
(* a delta-v is a fraction [num, den] with den > 0.                        *)
(***************************************************************************)
EXTENDS Integers, Sequences, FiniteSets, TLC

VARIABLES
    pc,              \* position of the component under check
    \* ---- trend gate (packages/orbit/trend.py, apps/api/main.py)
    trend_metrics,   \* the TrendMetrics dict handed to classify_trend_gate
    tca_utc,         \* the event's tca_utc string (whole seconds)
    now_utc,         \* now_utc of the run (ticks; may carry a fraction)
    defer_hours,     \* config.defer_hours
    gate,            \* dict returned by classify_trend_gate, NULL before
    api_now,         \* datetime.now() read by the API request
    api_defer,       \* defer_until_utc of the API decision, NULL before
    \* ---- maneuver planner (packages/orbit/maneuver.py, run_screening.py)
    event,           \* the event dict handed to plan_min_delta_v
    policy,          \* the ManeuverPolicy
    planned,         \* dict returned by plan_min_delta_v, NULL before
    selected_plan,   \* ManeuverPlan the driver stores, NULL before
    \* ---- screening driver (scripts/run_screening.py, packages/orbit/*.py)
    raw_tles,        \* rows fetched from the tles table, in fetch order
    args,            \* CLI arguments read so far (argparse namespace)
    tles,            \* list returned by load_latest_tles, NULL before
    valid_tles,      \* kept TLEs in propagation order
    positions_km,    \* positions_km[t][i], a 3-vector of integers (km)
    candidate_stream,\* (t_idx, pair) items of candidate_pairs_by_timestep
    stream_idx,      \* next item of the candidate stream to fold
    best_by_pair,    \* dict (i, j) -> (dist_m, t_idx) of the refinement fold
    pair_order,      \* insertion order of best_by_pair's keys
    pair_idx,        \* next key of best_by_pair to refine
    refined,         \* refined_events list
    row_idx,         \* next refined row the driver scores
    events,          \* the driver's events list
    event_groups,    \* dict event_id -> (primary_group, secondary_group)
    top_events,      \* the driver's top_events list
    snapshot,        \* CesiumSnapshot (norad ids, times), NULL before
    top_conjunctions,\* events written to top_conjunctions.json, NULL before
    disk,            \* the artifact directory: file name -> bytes, NULL if absent
    run_id,          \* number of screening runs started on the directory
    loop_pc,         \* position of the autonomy-loop request
    loop_id,         \* number of autonomy-loop requests started
    latest_manifest, \* the manifest the autonomy loop read at its start
    plans_entries,   \* the driver's plans_entries dict, NULL before the stage
    returned,        \* the value returned by the function a call spec applies
    \* ---- the while loop of find_refined_conjunctions (conjunction.py)
    cursor,          \* the loop's cursor, NULL outside the loop
    refine_list      \* the list refine_times the loop appends to

gate_vars   == <<trend_metrics, tca_utc, now_utc, defer_hours, gate, api_now, api_defer>>
plan_vars   == <<event, policy, planned, selected_plan>>
screen_vars == <<raw_tles, args, tles, valid_tles, positions_km, candidate_stream,
                 stream_idx, best_by_pair, pair_order, pair_idx, refined, row_idx,
                 events, event_groups, top_events, snapshot, top_conjunctions>>
artifact_vars == <<disk, run_id, loop_pc, loop_id, latest_manifest>>
loop_vars   == <<cursor, refine_list>>
call_vars   == <<plans_entries, returned, loop_vars>>
vars        == <<pc, gate_vars, plan_vars, screen_vars, artifact_vars, call_vars>>

\* Python's None.
NULL == [null |-> TRUE]

Max(a, b) == IF a >= b THEN a ELSE b
Min(a, b) == IF a <= b THEN a ELSE b

(***************************************************************************)
(* Time                                                                    *)
(***************************************************************************)
TicksPerSecond == 2
SecondsPerMinute == 60
SecondsPerHour == 3600

Minutes(m) == m * SecondsPerMinute * TicksPerSecond
Hours(h)   == h * SecondsPerHour * TicksPerSecond

\* strftime("%Y-%m-%dT%H:%M:%SZ"): the fraction of the second is dropped.
iso_utc(dt) == dt \div TicksPerSecond

\* datetime.fromisoformat of a second-resolution string.
parse_iso_utc(value) == value * TicksPerSecond

(***************************************************************************)
(* Trend gate                                                              *)
(***************************************************************************)
DeferFloorMinutes == 10
RevisitHours == 6
TcaGuardHours == 12
\* pc_stability < 0.3, in hundredths
StabilityFloor == 30

compute_defer_until_utc(tca, now) ==
    LET now_dt      == now
        tca_dt      == parse_iso_utc(tca)
        candidate_a == tca_dt - Hours(TcaGuardHours)
        candidate_b == now_dt + Hours(RevisitHours)
        defer_until == Min(candidate_a, candidate_b)
        min_allowed == now_dt + Minutes(DeferFloorMinutes)
    IN  iso_utc(IF defer_until < min_allowed THEN min_allowed ELSE defer_until)

\* A plausible slip: IGNORE is decided before the time gate is consulted.
classify_trend_gate_threshold_first(tm, tca, now, dh) ==
    IF tm.pc_peak < tm.threshold
    THEN [decision_mode_hint |-> "IGNORE", gate_reason_code |-> "BELOW_THRESHOLD",
          defer_until_utc |-> NULL]
    ELSE IF tm.time_to_tca_hours > dh /\ tm.pc_peak < tm.critical_override
    THEN [decision_mode_hint |-> "DEFER", gate_reason_code |-> "FAR_FROM_TCA",
          defer_until_utc |-> [iso |-> compute_defer_until_utc(tca, now)]]
    ELSE IF tm.pc_slope <= 0 /\ tm.pc_stability < StabilityFloor
    THEN [decision_mode_hint |-> "DEFER", gate_reason_code |-> "SPIKY_NOT_SUSTAINED",
          defer_until_utc |-> [iso |-> compute_defer_until_utc(tca, now)]]
    ELSE [decision_mode_hint |-> "MANEUVER", gate_reason_code |-> "SUSTAINED_RISK",
          defer_until_utc |-> NULL]

\* A plausible slip: every outcome carries a defer_until_utc.
classify_trend_gate_always_defer_until(tm, tca, now, dh) ==
    LET until == [iso |-> compute_defer_until_utc(tca, now)] IN
    IF tm.time_to_tca_hours > dh /\ tm.pc_peak < tm.critical_override
    THEN [decision_mode_hint |-> "DEFER", gate_reason_code |-> "FAR_FROM_TCA",
          defer_until_utc |-> until]
    ELSE IF tm.pc_peak < tm.threshold
    THEN [decision_mode_hint |-> "IGNORE", gate_reason_code |-> "BELOW_THRESHOLD",
          defer_until_utc |-> until]
    ELSE IF tm.pc_slope <= 0 /\ tm.pc_stability < StabilityFloor
    THEN [decision_mode_hint |-> "DEFER", gate_reason_code |-> "SPIKY_NOT_SUSTAINED",
          defer_until_utc |-> until]
    ELSE [decision_mode_hint |-> "MANEUVER", gate_reason_code |-> "SUSTAINED_RISK",
          defer_until_utc |-> until]

classify_trend_gate(tm, tca, now, dh) ==
    IF tm.time_to_tca_hours > dh /\ tm.pc_peak < tm.critical_override
    THEN [decision_mode_hint |-> "DEFER", gate_reason_code |-> "FAR_FROM_TCA",
          defer_until_utc |-> [iso |-> compute_defer_until_utc(tca, now)]]
    ELSE IF tm.pc_peak < tm.threshold
    THEN [decision_mode_hint |-> "IGNORE", gate_reason_code |-> "BELOW_THRESHOLD",
          defer_until_utc |-> NULL]
    ELSE IF tm.pc_slope <= 0 /\ tm.pc_stability < StabilityFloor
    THEN [decision_mode_hint |-> "DEFER", gate_reason_code |-> "SPIKY_NOT_SUSTAINED",
          defer_until_utc |-> [iso |-> compute_defer_until_utc(tca, now)]]
    ELSE [decision_mode_hint |-> "MANEUVER", gate_reason_code |-> "SUSTAINED_RISK",
          defer_until_utc |-> NULL]

\* apps/api/main.py; both datetime.now() reads of one request are one instant.
compute_default_defer_until(tca, now) ==
    LET tca_dt      == parse_iso_utc(tca)
        defer_until == Min(tca_dt - Hours(TcaGuardHours), now + Hours(RevisitHours))
        min_time    == now + Minutes(DeferFloorMinutes)
    IN  iso_utc(IF defer_until < min_time THEN min_time ELSE defer_until)

ensure_future_defer_until(raw_defer_until_utc, tca, now) ==
    IF raw_defer_until_utc # NULL
       /\ parse_iso_utc(raw_defer_until_utc.iso) >= now + Minutes(DeferFloorMinutes)
    THEN iso_utc(parse_iso_utc(raw_defer_until_utc.iso))
    ELSE compute_default_defer_until(tca, now)

(***************************************************************************)
(* SpecGate: the gate on bounded inputs, then the API request.             *)
(***************************************************************************)
NowBase == 100000

PcPeaks        == {0, 5, 10, 1000, 2000}
Thresholds     == {0, 10, 2000}
Overrides      == {0, 1000}
PcSlopes       == {-1, 0, 1}
PcStabilities  == {0, StabilityFloor - 1, StabilityFloor, 100}
TimesToTca     == {-1, 24, 25, 48}
DeferHours     == {0, 24}
\* seconds between the run's whole second and tca_utc
TcaOffsets     == {0 - SecondsPerHour, 300,
                   12 * SecondsPerHour + 300, 12 * SecondsPerHour + 600,
                   12 * SecondsPerHour + 601, 13 * SecondsPerHour,
                   18 * SecondsPerHour, 18 * SecondsPerHour + 1,
                   48 * SecondsPerHour}
NowInstants    == {parse_iso_utc(NowBase) + f : f \in 0 .. (TicksPerSecond - 1)}
TcaStrings     == {NowBase + d : d \in TcaOffsets}
ApiDelays      == {0, 1, Minutes(5), Hours(7)}

TrendMetricsRecords ==
    [pc_peak : PcPeaks, pc_slope : PcSlopes, pc_stability : PcStabilities,
     threshold : Thresholds, critical_override : Overrides,
     time_to_tca_hours : TimesToTca]

IdleGate ==
    /\ trend_metrics = NULL /\ tca_utc = NULL /\ now_utc = NULL
    /\ defer_hours = NULL /\ gate = NULL /\ api_now = NULL /\ api_defer = NULL

IdlePlan ==
    /\ event = NULL /\ policy = NULL /\ planned = NULL /\ selected_plan = NULL

IdleScreen ==
    /\ raw_tles = NULL /\ args = NULL /\ tles = NULL /\ valid_tles = NULL
    /\ positions_km = NULL /\ candidate_stream = NULL /\ stream_idx = NULL
    /\ best_by_pair = NULL /\ pair_order = NULL /\ pair_idx = NULL
    /\ refined = NULL /\ row_idx = NULL /\ events = NULL
    /\ event_groups = NULL /\ top_events = NULL /\ snapshot = NULL
    /\ top_conjunctions = NULL

IdleArtifacts ==
    /\ disk = NULL /\ run_id = NULL /\ loop_pc = NULL /\ loop_id = NULL
    /\ latest_manifest = NULL

IdleLoop == cursor = NULL /\ refine_list = NULL

IdleCall == plans_entries = NULL /\ returned = NULL /\ IdleLoop

InitGate ==
    /\ pc = "gate_start"
    /\ trend_metrics \in TrendMetricsRecords
    /\ tca_utc \in TcaStrings
    /\ now_utc \in NowInstants
    /\ defer_hours \in DeferHours
    /\ gate = NULL /\ api_now = NULL /\ api_defer = NULL
    /\ IdlePlan /\ IdleScreen /\ IdleArtifacts /\ IdleCall

\* evaluate_trend_gate's call of classify_trend_gate
ClassifyTrendGate ==
    /\ pc = "gate_start"
    /\ gate' = classify_trend_gate(trend_metrics, tca_utc, now_utc, defer_hours)
    /\ pc' = "gate_done"
    /\ UNCHANGED <<trend_metrics, tca_utc, now_utc, defer_hours, api_now, api_defer>>
    /\ UNCHANGED <<plan_vars, screen_vars, artifact_vars, call_vars>>

\* run_autonomy_loop_internal, consultant decision DEFER
ApiDecideDefer ==
    /\ pc = "gate_done"
    /\ \E d \in ApiDelays :
          /\ api_now' = now_utc + d
          /\ api_defer' = [iso |-> ensure_future_defer_until(gate.defer_until_utc,
                                                            tca_utc, now_utc + d)]
    /\ pc' = "api_done"
    /\ UNCHANGED <<trend_metrics, tca_utc, now_utc, defer_hours, gate>>
    /\ UNCHANGED <<plan_vars, screen_vars, artifact_vars, call_vars>>

\* run_autonomy_loop_internal, any other consultant decision
ApiDecideOther ==
    /\ pc = "gate_done"
    /\ \E d \in ApiDelays : api_now' = now_utc + d
    /\ api_defer' = NULL
    /\ pc' = "api_done"
    /\ UNCHANGED <<trend_metrics, tca_utc, now_utc, defer_hours, gate>>
    /\ UNCHANGED <<plan_vars, screen_vars, artifact_vars, call_vars>>

NextGate == ClassifyTrendGate \/ ApiDecideDefer \/ ApiDecideOther

SpecGate == InitGate /\ [][NextGate]_vars

GateDone == pc \in {"gate_done", "api_done"}

\* max(now + 10 min, min(tca - 12 h, now + 6 h)) as an instant
DeferFormula ==
    Max(now_utc + Minutes(DeferFloorMinutes),
        Min(parse_iso_utc(tca_utc) - Hours(TcaGuardHours), now_utc + Hours(RevisitHours)))

(***************************************************************************)
(* C1: for every TrendMetrics record and every defer_hours the gate returns *)
(* one of four outcomes by strict priority: DEFER/FAR_FROM_TCA when         *)
(* time_to_tca_hours > defer_hours and pc_peak < critical_override; else    *)
(* IGNORE/BELOW_THRESHOLD when pc_peak < threshold; else                    *)
(* DEFER/SPIKY_NOT_SUSTAINED when pc_slope <= 0 and pc_stability < 0.3;     *)
(* else MANEUVER/SUSTAINED_RISK.                                            *)
(***************************************************************************)
C1_GatePriority ==
    GateDone =>
        LET tm     == trend_metrics
            out    == <<gate.decision_mode_hint, gate.gate_reason_code>>
            far    == tm.time_to_tca_hours > defer_hours /\ tm.pc_peak < tm.critical_override
            below  == tm.pc_peak < tm.threshold
            spiky  == tm.pc_slope <= 0 /\ tm.pc_stability < StabilityFloor
        IN  /\ far => out = <<"DEFER", "FAR_FROM_TCA">>
            /\ (~far /\ below) => out = <<"IGNORE", "BELOW_THRESHOLD">>
            /\ (~far /\ ~below /\ spiky) => out = <<"DEFER", "SPIKY_NOT_SUSTAINED">>
            /\ (~far /\ ~below /\ ~spiky) => out = <<"MANEUVER", "SUSTAINED_RISK">>
            /\ out \in {<<"DEFER", "FAR_FROM_TCA">>, <<"IGNORE", "BELOW_THRESHOLD">>,
                        <<"DEFER", "SPIKY_NOT_SUSTAINED">>, <<"MANEUVER", "SUSTAINED_RISK">>}

\* The time condition holds but the peak is at the critical override, and the
\* peak is below a threshold set above the override: rule (2) decides IGNORE.
C1_Witness ==
    /\ pc = "gate_done"
    /\ trend_metrics.time_to_tca_hours > defer_hours
    /\ trend_metrics.pc_peak >= trend_metrics.critical_override
    /\ trend_metrics.pc_peak < trend_metrics.threshold
    /\ gate.decision_mode_hint = "IGNORE"

(***************************************************************************)
(* C5: whenever the decision is DEFER, defer_until_utc names an instant     *)
(* that is not earlier than now + 10 minutes, also when now carries a       *)
(* fractional second (the gate's value against the run's now, the API's     *)
(* value against the request's now).                                        *)
(***************************************************************************)
C5_DeferFloor ==
    /\ (GateDone /\ gate.decision_mode_hint = "DEFER")
          => parse_iso_utc(gate.defer_until_utc.iso) >= now_utc + Minutes(DeferFloorMinutes)
    /\ (pc = "api_done" /\ api_defer # NULL)
          => parse_iso_utc(api_defer.iso) >= api_now + Minutes(DeferFloorMinutes)

(***************************************************************************)
(* C6 (as stated): defer_until_utc is non-null exactly when the decision is *)
(* DEFER, and then it is the instant max(now + 10 min, min(tca - 12 h,      *)
(* now + 6 h)).                                                             *)
(***************************************************************************)
C6_Original ==
    GateDone =>
        /\ (gate.defer_until_utc # NULL) <=> (gate.decision_mode_hint = "DEFER")
        /\ gate.decision_mode_hint = "DEFER"
              => parse_iso_utc(gate.defer_until_utc.iso) = DeferFormula

(***************************************************************************)
(* C6 (amended): defer_until_utc is non-null exactly when the decision is   *)
(* DEFER (reason FAR_FROM_TCA or SPIKY_NOT_SUSTAINED), and then it is       *)
(* max(now + 10 min, min(tca - 12 h, now + 6 h)) truncated to the whole     *)
(* second; for IGNORE and MANEUVER it is null.                              *)
(***************************************************************************)
C6_DeferUntilTruncated ==
    GateDone =>
        /\ (gate.defer_until_utc # NULL) <=> (gate.decision_mode_hint = "DEFER")
        /\ gate.decision_mode_hint = "DEFER"
              => /\ gate.gate_reason_code \in {"FAR_FROM_TCA", "SPIKY_NOT_SUSTAINED"}
                 /\ parse_iso_utc(gate.defer_until_utc.iso) <= DeferFormula
                 /\ DeferFormula < parse_iso_utc(gate.defer_until_utc.iso + 1)
        /\ gate.decision_mode_hint \in {"IGNORE", "MANEUVER"} => gate.defer_until_utc = NULL

\* A DEFER whose formula value carries a fraction of a second.
C6_Witness ==
    /\ pc = "gate_done"
    /\ gate.decision_mode_hint = "DEFER"
    /\ parse_iso_utc(gate.defer_until_utc.iso) # DeferFormula

(***************************************************************************)
(* Maneuver planner (packages/orbit/maneuver.py)                           *)
(***************************************************************************)
\* A float as an exact fraction, den > 0.
Frac(n, d) == [num |-> n, den |-> d]
FracLeq(a, b)  == a.num * b.den <= b.num * a.den
FracLess(a, b) == a.num * b.den <  b.num * a.den
FracEq(a, b)   == a.num * b.den =  b.num * a.den

\* Python's < on two lists of code points (str < str).
CodesLess(a, b) ==
    \E k \in 1 .. (Min(Len(a), Len(b)) + 1) :
        /\ \A i \in 1 .. (k - 1) : a[i] = b[i]
        /\ IF k <= Min(Len(a), Len(b)) THEN a[k] < b[k] ELSE Len(a) < Len(b)

\* code points of the direction strings: "+" 43, "-" 45, "N" 78, "R" 82, "T" 84
DirectionCodes(d) ==
    CASE d = "+T" -> <<43, 84>> [] d = "-T" -> <<45, 84>>
      [] d = "+R" -> <<43, 82>> [] d = "-R" -> <<45, 82>>
      [] d = "+N" -> <<43, 78>> [] d = "-N" -> <<45, 78>>

\* list.sort(key=...): a stable insertion of each row behind the rows not above it.
InsertByKey(t, x, KeyLess(_, _)) ==
    LET k == Cardinality({i \in 1 .. Len(t) : ~KeyLess(x, t[i])})
    IN  SubSeq(t, 1, k) \o <<x>> \o SubSeq(t, k + 1, Len(t))

StableSort(s, KeyLess(_, _)) ==
    LET f[n \in 0 .. Len(s)] ==
            IF n = 0 THEN <<>> ELSE InsertByKey(f[n - 1], s[n], KeyLess)
    IN  f[Len(s)]

\* _direction_gains(), in dict order; gains in tenths
direction_gains == <<"+T", "-T", "+R", "-R", "+N", "-N">>
GainTenths(d) == IF d \in {"+T", "-T"} THEN 10 ELSE 3

\* gain is handed over in tenths: gap / (lead * gain) = 10 * gap / (lead * tenths)
required_delta_v(gap_m, lead_time_s, gain) ==
    IF lead_time_s <= 0 \/ gain <= 0 THEN NULL
    ELSE IF gap_m <= 0 THEN Frac(0, 1)
    ELSE Frac(10 * gap_m, lead_time_s * gain)

expected_miss(current_miss_m, delta_v_mps, lead_time_s, gain) ==
    LET delta_m == (delta_v_mps.num * lead_time_s * gain) \div (delta_v_mps.den * 10)
    IN  current_miss_m + Max(0, delta_m)

\* A plausible slip: the cap is excluded.
candidate_feasible_strict(delta_v_req, max_delta_v) ==
    delta_v_req # NULL /\ FracLess(delta_v_req, max_delta_v)

candidate_feasible(delta_v_req, max_delta_v) ==
    delta_v_req # NULL /\ FracLeq(delta_v_req, max_delta_v)

\* A plausible slip: the direction is left out of the sort key.
candidate_key_less_no_direction(a, b) ==
    \/ FracLess(a.delta_v_mps, b.delta_v_mps)
    \/ /\ FracEq(a.delta_v_mps, b.delta_v_mps)
       /\ a.lead_time_s < b.lead_time_s

\* (row["delta_v_mps"], row["lead_time_s"], row["direction"]) as tuples compare
candidate_key_less(a, b) ==
    \/ FracLess(a.delta_v_mps, b.delta_v_mps)
    \/ /\ FracEq(a.delta_v_mps, b.delta_v_mps)
       /\ \/ a.lead_time_s < b.lead_time_s
          \/ /\ a.lead_time_s = b.lead_time_s
             /\ CodesLess(DirectionCodes(a.direction), DirectionCodes(b.direction))

IntLess(a, b) == a < b

\* the candidates list of plan_min_delta_v, in the order it is appended to
plan_candidates(ev, pol) ==
    LET tca_dt         == parse_iso_utc(ev.tca_utc)
        current_miss_m == ev.miss_distance_m
        target_m       == Max(0, pol.miss_distance_target_m)
        gap_m          == Max(0, target_m - current_miss_m)
        max_delta_v    == IF pol.max_delta_v_mps.num >= 0 THEN pol.max_delta_v_mps
                          ELSE Frac(0, 1)
        offsets        == StableSort(pol.candidate_offsets_h, IntLess)
        row(offset_h, direction) ==
            LET burn_time   == tca_dt - Hours(offset_h)
                lead_time_s == (tca_dt - burn_time) \div TicksPerSecond
                gain        == GainTenths(direction)
                delta_v_req == required_delta_v(gap_m, lead_time_s, gain)
            IN  [burn_time_utc   |-> iso_utc(burn_time),
                 direction       |-> direction,
                 delta_v_mps     |-> IF delta_v_req # NULL THEN delta_v_req
                                     ELSE Frac(max_delta_v.num + max_delta_v.den,
                                               max_delta_v.den),
                 expected_miss_m |-> expected_miss(current_miss_m,
                                        IF delta_v_req # NULL THEN delta_v_req
                                        ELSE Frac(0, 1), lead_time_s, gain),
                 feasible        |-> candidate_feasible(delta_v_req, max_delta_v),
                 lead_time_s     |-> lead_time_s,
                 gain            |-> gain]
    IN  [n \in 1 .. (Len(offsets) * Len(direction_gains)) |->
            row(offsets[((n - 1) \div Len(direction_gains)) + 1],
                direction_gains[((n - 1) % Len(direction_gains)) + 1])]

IsFeasibleRow(r) == r.feasible

plan_min_delta_v(ev, pol) ==
    LET tca_dt         == parse_iso_utc(ev.tca_utc)
        current_miss_m == ev.miss_distance_m
        target_m       == Max(0, pol.miss_distance_target_m)
        gap_m          == Max(0, target_m - current_miss_m)
        max_delta_v    == IF pol.max_delta_v_mps.num >= 0 THEN pol.max_delta_v_mps
                          ELSE Frac(0, 1)
        feasible_candidates ==
            StableSort(SelectSeq(plan_candidates(ev, pol), IsFeasibleRow),
                       candidate_key_less)
        late_burn_dt   == tca_dt - Minutes(pol.late_burn_minutes)
        late_lead_s    == (tca_dt - late_burn_dt) \div TicksPerSecond
        late_delta_v   == required_delta_v(gap_m, late_lead_s, 10)
        late_baseline  ==
            [burn_time_utc |-> iso_utc(late_burn_dt),
             direction     |-> "+T",
             delta_v_mps   |-> IF late_delta_v # NULL THEN late_delta_v
                               ELSE Frac(max_delta_v.num + max_delta_v.den,
                                         max_delta_v.den)]
    IN  IF feasible_candidates # <<>>
        THEN LET selected == feasible_candidates[1] IN
             [burn_time_utc       |-> [iso |-> selected.burn_time_utc],
              direction           |-> [str |-> selected.direction],
              delta_v_mps         |-> selected.delta_v_mps,
              expected_miss_m     |-> selected.expected_miss_m,
              feasibility         |-> "feasible",
              early_vs_late_ratio |->
                  IF late_delta_v # NULL /\ late_delta_v.num > 0
                  THEN [of |-> selected.delta_v_mps, over |-> late_delta_v]
                  ELSE NULL,
              current_miss_m      |-> current_miss_m,
              target_miss_m       |-> target_m,
              late_baseline       |-> late_baseline]
        ELSE [burn_time_utc       |-> NULL,
              direction           |-> NULL,
              delta_v_mps         |-> NULL,
              expected_miss_m     |-> current_miss_m,
              feasibility         |-> "infeasible",
              early_vs_late_ratio |-> NULL,
              current_miss_m      |-> current_miss_m,
              target_miss_m       |-> target_m,
              late_baseline       |-> late_baseline]

\* run_screening.py main: the ManeuverPlan built from the planner's dict for a
\* MANEUVER-classified event
driver_selected_plan(p) ==
    IF p.burn_time_utc # NULL /\ p.direction # NULL /\ p.delta_v_mps # NULL
    THEN [burn_time_utc       |-> p.burn_time_utc,
          direction           |-> p.direction,
          delta_v_mps         |-> p.delta_v_mps,
          expected_miss_m     |-> p.expected_miss_m,
          feasibility         |-> p.feasibility,
          early_vs_late_ratio |-> p.early_vs_late_ratio]
    ELSE [burn_time_utc       |-> [str |-> ""],
          direction           |-> [str |-> ""],
          delta_v_mps         |-> Frac(0, 1),
          expected_miss_m     |-> p.expected_miss_m,
          feasibility         |-> p.feasibility,
          early_vs_late_ratio |-> p.early_vs_late_ratio]

(***************************************************************************)
(* SpecPlan: the planner on bounded events and policies, then the driver's *)
(* storing of the plan of a MANEUVER-classified event.                     *)
(***************************************************************************)
MaxOffsets == 2
MaxGapStep == 2

OffsetHours   == {-2, 0, 2, 6, 20, 24}
MissDistances == {10 * k : k \in 0 .. MaxGapStep} \cup {5}
TargetMisses  == {-5, 0} \cup {10 * k : k \in 1 .. MaxGapStep}
DeltaVCaps    == {Frac(-1, 1), Frac(0, 1), Frac(1, 10000), Frac(1, 2000), Frac(1, 2)}
LateBurnMinutes == {0, 30}
OffsetLists   == UNION {[1 .. n -> OffsetHours] : n \in 0 .. MaxOffsets}

InitPlan ==
    /\ pc = "plan_start"
    /\ event \in [tca_utc : {NowBase + 48 * SecondsPerHour},
                  miss_distance_m : MissDistances]
    /\ policy \in [miss_distance_target_m : TargetMisses,
                   max_delta_v_mps : DeltaVCaps,
                   candidate_offsets_h : OffsetLists,
                   late_burn_minutes : LateBurnMinutes]
    /\ planned = NULL /\ selected_plan = NULL
    /\ IdleGate /\ IdleScreen /\ IdleArtifacts /\ IdleCall

PlanMinDeltaV ==
    /\ pc = "plan_start"
    /\ planned' = plan_min_delta_v(event, policy)
    /\ pc' = "planned"
    /\ UNCHANGED <<event, policy, selected_plan>>
    /\ UNCHANGED <<gate_vars, screen_vars, artifact_vars, call_vars>>

DriverStorePlan ==
    /\ pc = "planned"
    /\ selected_plan' = driver_selected_plan(planned)
    /\ pc' = "plan_stored"
    /\ UNCHANGED <<event, policy, planned>>
    /\ UNCHANGED <<gate_vars, screen_vars, artifact_vars, call_vars>>

NextPlan == PlanMinDeltaV \/ DriverStorePlan

SpecPlan == InitPlan /\ [][NextPlan]_vars

PlanDone == pc \in {"planned", "plan_stored"}

\* The (offset, direction) grid of the claim, computed from the policy alone:
\* required delta-v max(0, target - miss) / (g_d * lead) of a positive lead.
GridPoints ==
    {<<policy.candidate_offsets_h[k], d>> :
        k \in DOMAIN policy.candidate_offsets_h,
        d \in {"+T", "-T", "+R", "-R", "+N", "-N"}}
GridGap == Max(0, policy.miss_distance_target_m - event.miss_distance_m)
GridLead(g) == g[1] * SecondsPerHour
GridDeltaV(g) == Frac(10 * GridGap, GridLead(g) * GainTenths(g[2]))
GridFeasible(cap) ==
    {g \in GridPoints : GridLead(g) > 0 /\ FracLeq(GridDeltaV(g), cap)}
EffectiveCap == IF policy.max_delta_v_mps.num >= 0 THEN policy.max_delta_v_mps
                ELSE Frac(0, 1)
GridBurn(g) == event.tca_utc - GridLead(g)

(***************************************************************************)
(* C2: whenever some (burn offset, direction) candidate is feasible, the    *)
(* returned plan is a feasible candidate of the smallest required delta-v;  *)
(* among those the one of the smallest lead time; among those the one whose *)
(* direction string is lexicographically smallest.  No feasible candidate   *)
(* has a strictly smaller delta-v than the returned plan.                   *)
(***************************************************************************)
C2_MinDeltaVSelected ==
    (PlanDone /\ GridFeasible(EffectiveCap) # {}) =>
        /\ planned.feasibility = "feasible"
        /\ \E g \in GridFeasible(EffectiveCap) :
              /\ planned.burn_time_utc = [iso |-> GridBurn(g)]
              /\ planned.direction = [str |-> g[2]]
              /\ FracEq(planned.delta_v_mps, GridDeltaV(g))
              /\ \A h \in GridFeasible(EffectiveCap) :
                    /\ ~FracLess(GridDeltaV(h), GridDeltaV(g))
                    /\ FracEq(GridDeltaV(h), GridDeltaV(g))
                          => GridLead(g) <= GridLead(h)
                    /\ (FracEq(GridDeltaV(h), GridDeltaV(g)) /\ GridLead(h) = GridLead(g))
                          => ~CodesLess(DirectionCodes(h[2]), DirectionCodes(g[2]))

\* The gap is already closed: every candidate needs delta-v 0, so the two
\* tie-breaks decide (shortest lead, direction "+N") among several offsets.
C2_Witness ==
    /\ pc = "planned"
    /\ GridGap = 0
    /\ Cardinality({GridLead(g) : g \in GridFeasible(EffectiveCap)}) >= 2
    /\ planned.direction = [str |-> "+N"]

(***************************************************************************)
(* C3 (as stated): the plan is "feasible" if and only if some configured    *)
(* offset of positive lead time and some direction d have                   *)
(* max(0, target - miss) / (g_d * lead) at most the policy's delta-v cap;   *)
(* and every feasible plan has 0 <= delta_v_mps <= max_delta_v_mps.         *)
(***************************************************************************)
C3_Original ==
    PlanDone =>
        /\ (planned.feasibility = "feasible")
              <=> (GridFeasible(policy.max_delta_v_mps) # {})
        /\ planned.feasibility = "feasible"
              => /\ FracLeq(Frac(0, 1), planned.delta_v_mps)
                 /\ FracLeq(planned.delta_v_mps, policy.max_delta_v_mps)

(***************************************************************************)
(* C3 (amended): the same with the cap taken as max(0, max_delta_v_mps):    *)
(* the plan is "feasible" if and only if some configured offset of positive *)
(* lead time and some direction need at most max(0, max_delta_v_mps); and   *)
(* every feasible plan has 0 <= delta_v_mps <= max(0, max_delta_v_mps).     *)
(***************************************************************************)
C3_FeasibleIffWithinClampedCap ==
    PlanDone =>
        /\ planned.feasibility \in {"feasible", "infeasible"}
        /\ (planned.feasibility = "feasible") <=> (GridFeasible(EffectiveCap) # {})
        /\ planned.feasibility = "feasible"
              => /\ FracLeq(Frac(0, 1), planned.delta_v_mps)
                 /\ FracLeq(planned.delta_v_mps, EffectiveCap)

\* A negative cap and a gap already closed: the plan is feasible at delta-v 0.
C3_Witness ==
    /\ pc = "planned"
    /\ policy.max_delta_v_mps.num < 0
    /\ planned.feasibility = "feasible"

(***************************************************************************)
(* C4: when no candidate meets the cap the plan has feasibility             *)
(* "infeasible", burn_time_utc, direction, delta_v_mps and                  *)
(* early_vs_late_ratio all null and expected_miss_m equal to the event's    *)
(* current miss distance, in the value plan_min_delta_v returns and in the  *)
(* maneuver_plan the driver stores for the event.                           *)
(***************************************************************************)
InfeasibleShape(p) ==
    /\ p.feasibility = "infeasible"
    /\ p.burn_time_utc = NULL
    /\ p.direction = NULL
    /\ p.delta_v_mps = NULL
    /\ p.early_vs_late_ratio = NULL
    /\ p.expected_miss_m = event.miss_distance_m

C4_InfeasiblePlanIsNull ==
    /\ (PlanDone /\ GridFeasible(EffectiveCap) = {}) => InfeasibleShape(planned)
    /\ (pc = "plan_stored" /\ GridFeasible(EffectiveCap) = {})
          => InfeasibleShape(selected_plan)

(***************************************************************************)
(* Screening run: scripts/run_screening.py main, with load_catalog.py,      *)
(* propagate.py, spatial_hash.py, conjunction.py and risk.py.  Python's     *)
(* 0-based object and timestep indices are 1-based here.                    *)
(***************************************************************************)

\* ---- load_catalog.py ----------------------------------------------------

\* Compares the epochs only.
tle_newer_epoch_only(tle, current) == tle.epoch_utc > current.epoch_utc

\* (tle.epoch_utc, tle.fetched_at_utc) > (current.epoch_utc, ...), tuple order.
tle_newer(tle, current) ==
    \/ tle.epoch_utc > current.epoch_utc
    \/ /\ tle.epoch_utc = current.epoch_utc
       /\ tle.fetched_at_utc > current.fetched_at_utc

\* best_by_norad after the first n rows, as the list of its values in
\* insertion order.
RECURSIVE dedupe_by_norad(_, _)
dedupe_by_norad(raw, n) ==
    IF n = 0 THEN <<>>
    ELSE LET acc == dedupe_by_norad(raw, n - 1)
             tle == raw[n]
             at  == {k \in 1..Len(acc) : acc[k].norad_id = tle.norad_id}
         IN  IF at = {} THEN Append(acc, tle)
             ELSE LET k == CHOOSE x \in at : TRUE
                  IN  IF tle_newer(tle, acc[k])
                      THEN [acc EXCEPT ![k] = tle]
                      ELSE acc

\* sort key (x.norad_id, x.epoch_utc)
tle_key_less(a, b) ==
    \/ a.norad_id < b.norad_id
    \/ a.norad_id = b.norad_id /\ a.epoch_utc < b.epoch_utc

\* str.strip() and str.upper() on the spellings of group names used here.
strip(value) ==
    CASE value = " Active " -> "Active"
      [] value = " "        -> ""
      [] OTHER              -> value

upper(value) ==
    CASE value = "Active"   -> "ACTIVE"
      [] value = "active"   -> "ACTIVE"
      [] value = " Active " -> " ACTIVE "
      [] value = "stations" -> "STATIONS"
      [] OTHER              -> value

\* _normalize_groups over the first n entries
RECURSIVE _normalize_groups(_, _)
_normalize_groups(groups, n) ==
    IF n = 0 THEN <<>>
    ELSE LET normalized == _normalize_groups(groups, n - 1)
             value == upper(strip(groups[n]))
         IN  IF value = "" \/ value \in {normalized[k] : k \in DOMAIN normalized}
             THEN normalized
             ELSE Append(normalized, value)

\* The rows of the query, in the order the store yields them: the group
\* filter, and with prefer_latest_fetch the join on each group's
\* MAX(fetched_at_utc); then _rows_to_tles.
query_rows(rows, normalized_groups, prefer_latest_fetch) ==
    LET wanted == {normalized_groups[k] : k \in DOMAIN normalized_groups}
        in_filtered(r) == upper(r.source_group) \in wanted
        filtered == SelectSeq(rows, in_filtered)
        max_fetched_at_utc(group) ==
            CHOOSE f \in {filtered[k].fetched_at_utc : k \in DOMAIN filtered} :
                /\ \E k \in DOMAIN filtered :
                      /\ upper(filtered[k].source_group) = group
                      /\ filtered[k].fetched_at_utc = f
                /\ \A k \in DOMAIN filtered :
                      upper(filtered[k].source_group) = group
                         => filtered[k].fetched_at_utc <= f
        is_latest(r) == r.fetched_at_utc = max_fetched_at_utc(upper(r.source_group))
        selected == IF prefer_latest_fetch THEN SelectSeq(filtered, is_latest)
                    ELSE filtered
    IN  [k \in DOMAIN selected |->
            [selected[k] EXCEPT !.source_group = upper(selected[k].source_group)]]

load_latest_tles(rows, groups, max_objects, prefer_latest_fetch, dedupe) ==
    LET normalized_groups == _normalize_groups(groups, Len(groups))
    IN  IF normalized_groups = <<>> THEN <<>>
        ELSE IF max_objects <= 0 THEN <<>>
        ELSE LET raw == query_rows(rows, normalized_groups, prefer_latest_fetch)
                 deduped_tles ==
                     StableSort(IF dedupe THEN dedupe_by_norad(raw, Len(raw)) ELSE raw,
                                tle_key_less)
             IN  SubSeq(deduped_tles, 1, Min(max_objects, Len(deduped_tles)))

\* ---- propagate.py -------------------------------------------------------

\* --dt (seconds) and the instant of the first timestep (seconds of the day).
Dt == 600
RunStarted == 3600

\* Number of coarse steps after the first: len(times_utc) = HorizonSteps + 1.
HorizonSteps == 2

time_count == HorizonSteps + 1

\* times_utc[t] of _build_times, in ticks.
times_utc(t) == (RunStarted + (t - 1) * Dt) * TicksPerSecond

\* int(round(x)) of the float n / d, d > 0: to the nearest integer, a half
\* to the even one.
round_half_even(n, d) ==
    LET q == n \div d
        r == n % d
    IN  IF 2 * r < d THEN q
        ELSE IF 2 * r > d THEN q + 1
        ELSE IF q % 2 = 0 THEN q ELSE q + 1

\* _build_times; start_utc and the horizon (horizon_hours * 3600 s) are in
\* ticks, dt_s is an int of seconds, the result is a list of instants in ticks.
_build_times(start_utc, horizon, dt_s) ==
    LET total_seconds == round_half_even(horizon, TicksPerSecond)
    IN  IF dt_s <= 0 THEN "ValueError"
        ELSE LET steps == total_seconds \div dt_s
                 times == [i \in 1..(steps + 1) |->
                              start_utc + (i - 1) * dt_s * TicksPerSecond]
                 end   == start_utc + total_seconds * TicksPerSecond
             IN  IF times[Len(times)] < end THEN Append(times, end) ELSE times

\* SGP4 is not modelled: each object follows one of a few tracks through
\* lattice points whose mutual distances are whole kilometres.
Tracks == {"hold", "approach", "late"}

TrackPoints(track) ==
    CASE track = "hold"     -> << <<0, 0, 0>>,  <<0, 0, 0>>, <<0, 0, 0>> >>
      [] track = "approach" -> << <<3, 4, 0>>,  <<3, 0, 0>>, <<0, 4, 0>> >>
      [] track = "late"     -> << <<40, 0, 0>>, <<0, 4, 0>>, <<3, 0, 0>> >>

TrackAt(track, t) == TrackPoints(track)[((t - 1) % 3) + 1]

\* Indices of the TLEs whose propagation succeeds, in order.
RECURSIVE kept_indices(_, _)
kept_indices(ok, n) ==
    IF n = 0 THEN <<>>
    ELSE IF ok[n] THEN Append(kept_indices(ok, n - 1), n)
         ELSE kept_indices(ok, n - 1)

\* ---- spatial_hash.py ----------------------------------------------------

\* Rounds the quotient toward zero.
voxel_of_truncating(coords, voxel_km) ==
    LET trunc(x) == IF x >= 0 THEN x \div voxel_km ELSE 0 - ((0 - x) \div voxel_km)
    IN  <<trunc(coords[1]), trunc(coords[2]), trunc(coords[3])>>

\* np.floor(coords / voxel_km): \div rounds toward minus infinity.
voxel_of(coords, voxel_km) ==
    <<coords[1] \div voxel_km, coords[2] \div voxel_km, coords[3] \div voxel_km>>

AbsDiff(a, b) == IF a >= b THEN a - b ELSE b - a

_NEIGHBOR_OFFSETS == {<<dx, dy, dz>> : dx \in {-1, 0, 1}, dy \in {-1, 0, 1}, dz \in {-1, 0, 1}}

\* voxel_map: key -> the objects whose voxel is key
voxel_map(coords, voxel_km) ==
    [key \in {voxel_of(coords[i], voxel_km) : i \in DOMAIN coords} |->
        {i \in DOMAIN coords : voxel_of(coords[i], voxel_km) = key}]

\* Pairs of objects of one voxel only.
pair_set_same_voxel(coords, voxel_km) ==
    {p \in (DOMAIN coords) \X (DOMAIN coords) :
        /\ p[1] < p[2]
        /\ voxel_of(coords[p[1]], voxel_km) = voxel_of(coords[p[2]], voxel_km)}

\* lines 40-51: for every occupied voxel, the occupied voxels at the 27
\* offsets around it, and the pairs i < j across the two
pair_set(coords, voxel_km) ==
    LET vm == voxel_map(coords, voxel_km)
        nkey(key, off) == <<key[1] + off[1], key[2] + off[2], key[3] + off[3]>>
    IN  UNION {IF nkey(key, off) \in DOMAIN vm
               THEN {p \in vm[key] \X vm[nkey(key, off)] : p[1] < p[2]}
               ELSE {} :
                  key \in DOMAIN vm, off \in _NEIGHBOR_OFFSETS}

pair_less(p, q) == p[1] < q[1] \/ (p[1] = q[1] /\ p[2] < q[2])

\* sorted(pair_set)
RECURSIVE sorted_pairs(_)
sorted_pairs(S) ==
    IF S = {} THEN <<>>
    ELSE LET m == CHOOSE p \in S : \A q \in S \ {p} : pair_less(p, q)
         IN  <<m>> \o sorted_pairs(S \ {m})

\* The output list: one (t_idx, pairs) item per timestep; ValueError when
\* voxel_km <= 0.
candidate_pairs_by_timestep(positions, voxel_km) ==
    IF voxel_km <= 0 THEN "ValueError"
    ELSE [t_idx \in DOMAIN positions |->
             [t_idx |-> t_idx, pairs |-> sorted_pairs(pair_set(positions[t_idx], voxel_km))]]

\* ---- conjunction.py ------------------------------------------------------

\* for t_idx, pairs in candidate_stream: for pair in pairs: the (t_idx, pair)
\* items in the order find_refined_conjunctions meets them.
RECURSIVE stream_items(_, _)
stream_items(stream, n) ==
    IF n = 0 THEN <<>>
    ELSE stream_items(stream, n - 1)
         \o [k \in DOMAIN stream[n].pairs |->
                [t_idx |-> stream[n].t_idx, pair |-> stream[n].pairs[k]]]

\* np.linalg.norm of an integer 3-vector; exact on the lattice of the tracks.
vec_norm(d) ==
    LET sq == d[1] * d[1] + d[2] * d[2] + d[3] * d[3]
    IN  CHOOSE r \in 0..sq : r * r = sq

pair_dist_m(positions, t_idx, pair) ==
    LET a == positions[t_idx][pair[1]]
        b == positions[t_idx][pair[2]]
    IN  vec_norm(<<a[1] - b[1], a[2] - b[2], a[3] - b[3]>>) * 1000

\* Keeps the later timestep when two distances are equal.
fold_better_or_equal(dist_m, prev) == prev = NULL \/ dist_m <= prev[1]

\* prev is None or dist_m < prev[0]
fold_better(dist_m, prev) == prev = NULL \/ dist_m < prev[1]

\* best_by_pair.get(pair)
dict_get(d, key) == IF key \in DOMAIN d THEN d[key] ELSE NULL

dict_set(d, key, value) ==
    [k \in (DOMAIN d) \cup {key} |-> IF k = key THEN value ELSE d[k]]

refine_half_window_steps == 2

\* refine_times of one pair: t_start, t_start + dt_refine, ... up to t_end,
\* with t_end appended when the last step falls short of it.
refine_times(coarse_idx, dt_refine_s) ==
    LET i0      == Max(1, coarse_idx - refine_half_window_steps)
        i1      == Min(time_count, coarse_idx + refine_half_window_steps)
        t_start == times_utc(i0)
        t_end   == times_utc(i1)
        step    == dt_refine_s * TicksPerSecond
        n       == ((t_end - t_start) \div step) + 1
        stepped == [k \in 1..n |-> t_start + (k - 1) * step]
    IN  IF stepped[n] < t_end THEN Append(stepped, t_end) ELSE stepped

\* The row appended to refined_events for pair (i, j) when the fine
\* propagation puts the minimum at refine_times[min_idx].
refined_row(tle_list, pair, coarse_idx, dt_refine_s, min_idx, miss_distance_m) ==
    LET rt == refine_times(coarse_idx, dt_refine_s)
    IN  [primary_id       |-> tle_list[pair[1]].norad_id,
         secondary_id     |-> tle_list[pair[2]].norad_id,
         tca_utc          |-> [iso |-> iso_utc(rt[min_idx])],
         miss_distance_m  |-> miss_distance_m,
         primary_group    |-> tle_list[pair[1]].source_group,
         secondary_group  |-> tle_list[pair[2]].source_group,
         window_start_utc |-> [iso |-> iso_utc(rt[1])],
         window_end_utc   |-> [iso |-> iso_utc(rt[Len(rt)])]]

\* ---- risk.py -------------------------------------------------------------

\* The catalog groups of the model and the test '"DEBRIS" in group'.
SourceGroups == {"ACTIVE", "STATIONS", "COSMOS-1408-DEBRIS", "FENGYUN-1C-DEBRIS"}

contains_debris(group) == group \in {"COSMOS-1408-DEBRIS", "FENGYUN-1C-DEBRIS"}

classify_sigma_m(group, sigma_payload_m, sigma_debris_m) ==
    IF contains_debris(group) THEN sigma_debris_m ELSE sigma_payload_m

\* sigma_pair_m squared: the square root is taken back by scale = sigma * sigma.
sigma_pair_sq(primary_group, secondary_group, sigma_payload_m, sigma_debris_m) ==
    LET s1 == classify_sigma_m(primary_group, sigma_payload_m, sigma_debris_m)
        s2 == classify_sigma_m(secondary_group, sigma_payload_m, sigma_debris_m)
    IN  s1 * s1 + s2 * s2

\* Value of the trapezoid integral for hard_body_radius_m = 25, in units of
\* 1e-9 rounded down, at the miss distances and sigmas of the model
\* (evaluated from the formula of lines 39-45; at 50 km and beyond exp()
\* underflows and the integral is exactly 0.0).
trapz_integral_nano(miss_distance_m, sigma_sq) ==
    CASE miss_distance_m = 100 /\ sigma_sq = 80000  -> 3662871
      [] miss_distance_m = 100 /\ sigma_sq = 290000 -> 1058605
      [] miss_distance_m = 100 /\ sigma_sq = 500000 -> 618589
      [] miss_distance_m >= 50000                   -> 0

\* A float64 result: a finite value (in units of 1e-9), NaN or an infinity.
isfinite(x) == x.kind = "finite"

\* Lines 36-49 without the finiteness test and the clamp.
pc_assumed_unclamped(sigma, hard_body_radius_m, pc_trapz) ==
    LET radius == Max(0, hard_body_radius_m)
    IN  IF sigma <= 0 \/ radius <= 0 THEN [kind |-> "finite", nano |-> 0]
        ELSE pc_trapz

\* Lines 34-49 given pc_trapz = float(np.trapz(integrand, rho)) of line 45; sigma
\* enters the tests by its sign.
pc_assumed_from_quadrature(sigma, hard_body_radius_m, pc_trapz) ==
    LET radius == Max(0, hard_body_radius_m)
    IN  IF sigma <= 0 \/ radius <= 0 THEN [kind |-> "finite", nano |-> 0]
        ELSE IF ~isfinite(pc_trapz) THEN [kind |-> "finite", nano |-> 0]
        ELSE [kind |-> "finite", nano |-> Max(0, Min(1000000000, pc_trapz.nano))]

pc_assumed_encounter_isotropic(miss_distance_m, sigma_sq, hard_body_radius_m) ==
    LET r == Max(0, miss_distance_m)
    IN  pc_assumed_from_quadrature(sigma_sq, hard_body_radius_m,
            [kind |-> "finite", nano |-> trapz_integral_nano(r, sigma_sq)]).nano

\* ---- run_screening.py: risk scoring -------------------------------------

_is_active_group(group) == group = "ACTIVE"

_is_debris_group(group) == contains_debris(group)

_is_active_vs_debris(primary_group, secondary_group) ==
    LET p_active == _is_active_group(primary_group)
        s_active == _is_active_group(secondary_group)
        p_debris == _is_debris_group(primary_group)
        s_debris == _is_debris_group(secondary_group)
    IN  (p_active /\ s_active) \/ (p_active /\ s_debris) \/ (s_active /\ p_debris)

\* Swaps the ids and leaves each group with the other object's id.
canonical_pair_ids_only(row) ==
    IF row.secondary_id < row.primary_id
    THEN [primary_id |-> row.secondary_id, secondary_id |-> row.primary_id,
          primary_group |-> row.primary_group, secondary_group |-> row.secondary_group]
    ELSE [primary_id |-> row.primary_id, secondary_id |-> row.secondary_id,
          primary_group |-> row.primary_group, secondary_group |-> row.secondary_group]

\* if secondary_id < primary_id: swap the ids and the groups together.
canonical_pair(row) ==
    IF row.secondary_id < row.primary_id
    THEN [primary_id |-> row.secondary_id, secondary_id |-> row.primary_id,
          primary_group |-> row.secondary_group, secondary_group |-> row.primary_group]
    ELSE [primary_id |-> row.primary_id, secondary_id |-> row.secondary_id,
          primary_group |-> row.primary_group, secondary_group |-> row.secondary_group]

\* str(n) of a non-negative integer, as code points.
RECURSIVE int_codes(_)
int_codes(n) ==
    IF n < 10 THEN <<48 + n>> ELSE int_codes(n \div 10) \o <<48 + (n % 10)>>

two_digit_codes(n) == <<48 + (n \div 10), 48 + (n % 10)>>

\* strftime("%Y-%m-%dT%H:%M:%SZ") of an instant of the run's day
\* (2026-02-22), given in seconds of that day.
iso_codes(seconds) ==
    <<50, 48, 50, 54, 45, 48, 50, 45, 50, 50, 84>>
    \o two_digit_codes(seconds \div SecondsPerHour) \o <<58>>
    \o two_digit_codes((seconds % SecondsPerHour) \div SecondsPerMinute) \o <<58>>
    \o two_digit_codes(seconds % SecondsPerMinute) \o <<90>>

\* f"EVT-{primary_id}-{secondary_id}-{tca_utc}"
format_event_id(primary_id, secondary_id, tca) ==
    <<69, 86, 84, 45>> \o int_codes(primary_id) \o <<45>>
    \o int_codes(secondary_id) \o <<45>> \o iso_codes(tca.iso)

downsample_step(a) == Max(1, a.snapshot_downsample)

\* snapshot_times_utc = [_iso_utc(ts) for ts in times_utc[::downsample_step]]
snapshot_times_utc(a) ==
    [k \in 1..(((time_count - 1) \div downsample_step(a)) + 1) |->
        iso_utc(times_utc(1 + (k - 1) * downsample_step(a)))]

\* _nearest_time_index: the first index (0-based) of the least |delta|.
_nearest_time_index(target, timeline) ==
    IF timeline = <<>> THEN 0
    ELSE LET best == CHOOSE k \in DOMAIN timeline :
                        /\ \A m \in DOMAIN timeline :
                              AbsDiff(timeline[k], target.iso) <= AbsDiff(timeline[m], target.iso)
                        /\ \A m \in 1..(k - 1) :
                              AbsDiff(timeline[m], target.iso) > AbsDiff(timeline[k], target.iso)
         IN  best - 1

\* The ConjunctionEvent built from one refined row (lines 569-604).
score_row(row, a) ==
    LET c          == canonical_pair(row)
        sigma_sq   == sigma_pair_sq(c.primary_group, c.secondary_group,
                                    a.sigma_payload_m, a.sigma_debris_m)
        pc_assumed == pc_assumed_encounter_isotropic(row.miss_distance_m, sigma_sq, a.hbr_m)
    IN  [event_id           |-> format_event_id(c.primary_id, c.secondary_id, row.tca_utc),
         primary_id         |-> c.primary_id,
         secondary_id       |-> c.secondary_id,
         tca_utc            |-> row.tca_utc,
         tca_index_snapshot |-> _nearest_time_index(row.tca_utc, snapshot_times_utc(a)),
         miss_distance_m    |-> row.miss_distance_m,
         pc_assumed         |-> pc_assumed,
         risk_score         |-> pc_assumed,
         window_start_utc   |-> row.window_start_utc,
         window_end_utc     |-> row.window_end_utc]

\* Sort key -risk_score alone.
event_key_less_risk_only(a, b) == (0 - a.risk_score) < (0 - b.risk_score)

\* key=lambda e: (-e.risk_score, e.miss_distance_m)
event_key_less(a, b) ==
    \/ (0 - a.risk_score) < (0 - b.risk_score)
    \/ /\ a.risk_score = b.risk_score
       /\ a.miss_distance_m < b.miss_distance_m

\* events[: max(0, int(args.top_k))]
top_slice(evts, top_k) == SubSeq(evts, 1, Min(Len(evts), Max(0, top_k)))

\* ---- run_screening.py: snapshot ------------------------------------------

subsets_of_size(S, n) == {T \in SUBSET S : Cardinality(T) = n}

\* The balanced selection without the objects of the top events: nothing is
\* required, every index comes from the seeded sampling.
_balanced_snapshot_indices_unrequired(tle_list, active_target, debris_target, max_total, required_norad_ids) ==
    LET active_indices   == {i \in DOMAIN tle_list : tle_list[i].source_group = "ACTIVE"}
        debris_indices   == (DOMAIN tle_list) \ active_indices
        required_indices == {}
        active_required  == required_indices \cap active_indices
        debris_required  == required_indices \cap debris_indices
        active_pool      == active_indices \ required_indices
        debris_pool      == debris_indices \ required_indices
        active_take      == Max(0, Min(active_target - Cardinality(active_required),
                                       Cardinality(active_pool)))
        debris_take      == Max(0, Min(debris_target - Cardinality(debris_required),
                                       Cardinality(debris_pool)))
        trimmed(combined) ==
            IF max_total # 0 /\ Cardinality(combined) > max_total
            THEN LET cap == IF Cardinality(required_indices) > max_total
                            THEN Cardinality(required_indices) ELSE max_total
                     remaining_slots == cap - Cardinality(required_indices)
                     extra_pool == combined \ required_indices
                 IN  {required_indices \cup e :
                        e \in subsets_of_size(extra_pool,
                                 Min(Cardinality(extra_pool), Max(0, remaining_slots)))}
            ELSE {combined}
    IN  UNION {trimmed(required_indices \cup sa \cup sd) :
                 sa \in subsets_of_size(active_pool, active_take),
                 sd \in subsets_of_size(debris_pool, debris_take)}

\* _balanced_snapshot_indices: the index sets the seeded sampling and
\* shuffling can return (the order of the result plays no part below).
_balanced_snapshot_indices(tle_list, active_target, debris_target, max_total, required_norad_ids) ==
    LET active_indices   == {i \in DOMAIN tle_list : tle_list[i].source_group = "ACTIVE"}
        debris_indices   == (DOMAIN tle_list) \ active_indices
        required_indices == {i \in DOMAIN tle_list :
                                tle_list[i].norad_id \in required_norad_ids}
        active_required  == required_indices \cap active_indices
        debris_required  == required_indices \cap debris_indices
        active_pool      == active_indices \ required_indices
        debris_pool      == debris_indices \ required_indices
        active_take      == Max(0, Min(active_target - Cardinality(active_required),
                                       Cardinality(active_pool)))
        debris_take      == Max(0, Min(debris_target - Cardinality(debris_required),
                                       Cardinality(debris_pool)))
        trimmed(combined) ==
            IF max_total # 0 /\ Cardinality(combined) > max_total
            THEN LET cap == IF Cardinality(required_indices) > max_total
                            THEN Cardinality(required_indices) ELSE max_total
                     remaining_slots == cap - Cardinality(required_indices)
                     extra_pool == combined \ required_indices
                 IN  {required_indices \cup e :
                        e \in subsets_of_size(extra_pool,
                                 Min(Cardinality(extra_pool), Max(0, remaining_slots)))}
            ELSE {combined}
    IN  UNION {trimmed(required_indices \cup sa \cup sd) :
                 sa \in subsets_of_size(active_pool, active_take),
                 sd \in subsets_of_size(debris_pool, debris_take)}

\* What _validate_event_links reads of the CesiumSnapshot.
_build_snapshot(tle_list, selected_idx, a) ==
    [norad_ids |-> {tle_list[i].norad_id : i \in selected_idx},
     times_utc |-> snapshot_times_utc(a)]

\* The link filter with its test negated: it keeps the unlinked events.
_validate_event_links_inverted(evts, snap) ==
    LET max_index == Len(snap.times_utc) - 1
        dropped(e) == ~ (/\ e.primary_id \in snap.norad_ids
                         /\ e.secondary_id \in snap.norad_ids
                         /\ e.tca_index_snapshot >= 0
                         /\ e.tca_index_snapshot <= max_index)
    IN  SelectSeq(evts, dropped)

\* run_screening.py lines 167-184
_validate_event_links(evts, snap) ==
    LET max_index == Len(snap.times_utc) - 1
        kept(e) == /\ e.primary_id \in snap.norad_ids
                   /\ e.secondary_id \in snap.norad_ids
                   /\ e.tca_index_snapshot >= 0
                   /\ e.tca_index_snapshot <= max_index
    IN  SelectSeq(evts, kept)

(***************************************************************************)
(* SpecScreen: one screening run, from the rows fetched from the catalog    *)
(* to top_conjunctions.json.                                                *)
(***************************************************************************)

Tle(norad_id, epoch_utc, source_group) ==
    [norad_id |-> norad_id, epoch_utc |-> epoch_utc, fetched_at_utc |-> 1,
     source_group |-> source_group]

\* Fetched rows: unsorted, with a NORAD id repeated at two epochs, with
\* payload-only, payload/debris and non-screened groups.
RawCatalogs ==
    { << Tle(9, 1, "ACTIVE"), Tle(5, 1, "ACTIVE"), Tle(9, 2, "ACTIVE") >>,
      << Tle(10, 1, "COSMOS-1408-DEBRIS"), Tle(5, 1, "ACTIVE"), Tle(9, 1, "ACTIVE") >>,
      << Tle(99, 1, "STATIONS"), Tle(5, 1, "ACTIVE") >> }

\* --groups, after _normalize_groups (line 477)
ScreenGroups == <<"ACTIVE", "COSMOS-1408-DEBRIS", "FENGYUN-1C-DEBRIS", "STATIONS">>

MaxObjects == {0, 2, 3}
TopKs == {-1, 1, 2}
RefinedMisses == {100, 50000, 60000}
\* Positions in refine_times the fine propagation's argmin may fall on.
RefinedArgmins == {1, 2}
SnapshotTargets == {0, 1}
SnapshotMaxes == {0, 1}

ScreenArgs ==
    [max_objects : MaxObjects, voxel_km : {5}, dt_refine : {Dt}, hbr_m : {25},
     sigma_payload_m : {200}, sigma_debris_m : {500}, snapshot_downsample : {2},
     top_k : {NULL}]

IdleRun ==
    /\ tles = NULL /\ valid_tles = NULL /\ positions_km = NULL
    /\ candidate_stream = NULL /\ stream_idx = NULL /\ best_by_pair = NULL
    /\ pair_order = NULL /\ pair_idx = NULL /\ refined = NULL /\ row_idx = NULL
    /\ events = NULL /\ event_groups = NULL /\ top_events = NULL
    /\ snapshot = NULL /\ top_conjunctions = NULL

InitScreen ==
    /\ pc = "load"
    /\ raw_tles \in RawCatalogs
    /\ args \in ScreenArgs
    /\ IdleRun
    /\ IdleGate /\ IdlePlan /\ IdleArtifacts /\ IdleCall

\* lines 500-510
LoadCatalog ==
    /\ pc = "load"
    /\ tles' = load_latest_tles(raw_tles, ScreenGroups, args.max_objects, TRUE, TRUE)
    /\ pc' = IF tles' = <<>> THEN "exit_1" ELSE "propagate"
    /\ UNCHANGED <<raw_tles, args, valid_tles, positions_km, candidate_stream,
                   stream_idx, best_by_pair, pair_order, pair_idx, refined, row_idx,
                   events, event_groups, top_events, snapshot, top_conjunctions>>
    /\ UNCHANGED <<gate_vars, plan_vars, artifact_vars, call_vars>>

\* lines 513-522: each TLE propagates along some track or fails in SGP4.
Propagate ==
    /\ pc = "propagate"
    /\ \E ok \in [DOMAIN tles -> BOOLEAN], track \in [DOMAIN tles -> Tracks] :
          LET kept == kept_indices(ok, Len(tles))
          IN  /\ \A i \in DOMAIN tles : ~ok[i] => track[i] = "hold"
              /\ valid_tles' = [k \in DOMAIN kept |-> tles[kept[k]]]
              /\ positions_km' = [t \in 1..time_count |->
                                    [k \in DOMAIN kept |-> TrackAt(track[kept[k]], t)]]
              /\ pc' = IF kept = <<>> THEN "exit_1" ELSE "candidates"
    /\ UNCHANGED <<raw_tles, args, tles, candidate_stream, stream_idx, best_by_pair,
                   pair_order, pair_idx, refined, row_idx, events, event_groups,
                   top_events, snapshot, top_conjunctions>>
    /\ UNCHANGED <<gate_vars, plan_vars, artifact_vars, call_vars>>

\* lines 527-528, and conjunction.py line 64
CandidateGeneration ==
    /\ pc = "candidates"
    /\ LET output == candidate_pairs_by_timestep(positions_km, args.voxel_km)
       IN  candidate_stream' = stream_items(output, Len(output))
    /\ stream_idx' = 1
    /\ best_by_pair' = <<>>
    /\ pair_order' = <<>>
    /\ pc' = "fold"
    /\ UNCHANGED <<raw_tles, args, tles, valid_tles, positions_km, pair_idx, refined,
                   row_idx, events, event_groups, top_events, snapshot, top_conjunctions>>
    /\ UNCHANGED <<gate_vars, plan_vars, artifact_vars, call_vars>>

\* conjunction.py lines 64-79, one (t_idx, pair) of the stream
FoldStep ==
    /\ pc = "fold"
    /\ stream_idx <= Len(candidate_stream)
    /\ LET item   == candidate_stream[stream_idx]
           dist_m == pair_dist_m(positions_km, item.t_idx, item.pair)
           prev   == dict_get(best_by_pair, item.pair)
       IN  /\ best_by_pair' = IF fold_better(dist_m, prev)
                              THEN dict_set(best_by_pair, item.pair, <<dist_m, item.t_idx>>)
                              ELSE best_by_pair
           /\ pair_order' = IF prev = NULL THEN Append(pair_order, item.pair)
                            ELSE pair_order
    /\ stream_idx' = stream_idx + 1
    /\ UNCHANGED <<pc, raw_tles, args, tles, valid_tles, positions_km, candidate_stream,
                   pair_idx, refined, row_idx, events, event_groups, top_events,
                   snapshot, top_conjunctions>>
    /\ UNCHANGED <<gate_vars, plan_vars, artifact_vars, call_vars>>

\* conjunction.py lines 81-92: the stream is exhausted
FoldDone ==
    /\ pc = "fold"
    /\ stream_idx > Len(candidate_stream)
    /\ pair_idx' = 1
    /\ refined' = <<>>
    /\ pc' = "refine"
    /\ UNCHANGED <<raw_tles, args, tles, valid_tles, positions_km, candidate_stream,
                   stream_idx, best_by_pair, pair_order, row_idx, events, event_groups,
                   top_events, snapshot, top_conjunctions>>
    /\ UNCHANGED <<gate_vars, plan_vars, artifact_vars, call_vars>>

\* conjunction.py lines 94-145: one key of best_by_pair; the fine
\* propagation yields some argmin over refine_times and some miss distance.
RefineStep ==
    /\ pc = "refine"
    /\ pair_idx <= Len(pair_order)
    /\ LET pair       == pair_order[pair_idx]
           coarse_idx == best_by_pair[pair][2]
           rt         == refine_times(coarse_idx, args.dt_refine)
       IN  \E min_idx \in RefinedArgmins \cap DOMAIN rt, miss_distance_m \in RefinedMisses :
              refined' = Append(refined,
                                refined_row(valid_tles, pair, coarse_idx, args.dt_refine,
                                            min_idx, miss_distance_m))
    /\ pair_idx' = pair_idx + 1
    /\ UNCHANGED <<pc, raw_tles, args, tles, valid_tles, positions_km, candidate_stream,
                   stream_idx, best_by_pair, pair_order, row_idx, events, event_groups,
                   top_events, snapshot, top_conjunctions>>
    /\ UNCHANGED <<gate_vars, plan_vars, artifact_vars, call_vars>>

\* conjunction.py lines 114-118: _propagate_sat returned None, the pair is dropped
RefineFail ==
    /\ pc = "refine"
    /\ pair_idx <= Len(pair_order)
    /\ pair_idx' = pair_idx + 1
    /\ UNCHANGED <<pc, raw_tles, args, tles, valid_tles, positions_km, candidate_stream,
                   stream_idx, best_by_pair, pair_order, refined, row_idx, events,
                   event_groups, top_events, snapshot, top_conjunctions>>
    /\ UNCHANGED <<gate_vars, plan_vars, artifact_vars, call_vars>>

\* conjunction.py lines 147-151 and run_screening.py lines 556-558
RefineDone ==
    /\ pc = "refine"
    /\ pair_idx > Len(pair_order)
    /\ row_idx' = 1
    /\ events' = <<>>
    /\ event_groups' = <<>>
    /\ pc' = "score"
    /\ UNCHANGED <<raw_tles, args, tles, valid_tles, positions_km, candidate_stream,
                   stream_idx, best_by_pair, pair_order, pair_idx, refined, top_events,
                   snapshot, top_conjunctions>>
    /\ UNCHANGED <<gate_vars, plan_vars, artifact_vars, call_vars>>

\* lines 559-567: a row of a disallowed pair type
ScoreRowFiltered ==
    /\ pc = "score"
    /\ row_idx <= Len(refined)
    /\ ~_is_active_vs_debris(refined[row_idx].primary_group, refined[row_idx].secondary_group)
    /\ row_idx' = row_idx + 1
    /\ UNCHANGED <<pc, raw_tles, args, tles, valid_tles, positions_km, candidate_stream,
                   stream_idx, best_by_pair, pair_order, pair_idx, refined, events,
                   event_groups, top_events, snapshot, top_conjunctions>>
    /\ UNCHANGED <<gate_vars, plan_vars, artifact_vars, call_vars>>

\* lines 559-606: a row that becomes an event
ScoreRow ==
    /\ pc = "score"
    /\ row_idx <= Len(refined)
    /\ _is_active_vs_debris(refined[row_idx].primary_group, refined[row_idx].secondary_group)
    /\ LET row == refined[row_idx]
           e   == score_row(row, args)
           c   == canonical_pair(row)
       IN  /\ events' = Append(events, e)
           /\ event_groups' = dict_set(event_groups, e.event_id,
                                       <<c.primary_group, c.secondary_group>>)
    /\ row_idx' = row_idx + 1
    /\ UNCHANGED <<pc, raw_tles, args, tles, valid_tles, positions_km, candidate_stream,
                   stream_idx, best_by_pair, pair_order, pair_idx, refined, top_events,
                   snapshot, top_conjunctions>>
    /\ UNCHANGED <<gate_vars, plan_vars, artifact_vars, call_vars>>

\* lines 608-609; --top-k is read here for the first time
SortEvents ==
    /\ pc = "score"
    /\ row_idx > Len(refined)
    /\ \E top_k \in TopKs :
          /\ args' = [args EXCEPT !.top_k = top_k]
          /\ events' = StableSort(events, event_key_less)
          /\ top_events' = top_slice(events', top_k)
    /\ pc' = "snapshot"
    /\ UNCHANGED <<raw_tles, tles, valid_tles, positions_km, candidate_stream, stream_idx,
                   best_by_pair, pair_order, pair_idx, refined, row_idx, event_groups,
                   snapshot, top_conjunctions>>
    /\ UNCHANGED <<gate_vars, plan_vars, artifact_vars, call_vars>>

\* lines 617-651; the snapshot options are read here only
BuildSnapshot ==
    /\ pc = "snapshot"
    /\ LET required_norads == {top_events[k].primary_id : k \in DOMAIN top_events}
                              \cup {top_events[k].secondary_id : k \in DOMAIN top_events}
       IN  \E snapshot_balanced \in BOOLEAN,
              snapshot_active \in SnapshotTargets,
              snapshot_debris \in SnapshotTargets,
              snapshot_max \in SnapshotMaxes :
              \E selected_idx \in
                    IF snapshot_balanced
                    THEN _balanced_snapshot_indices(valid_tles, snapshot_active,
                                                    snapshot_debris, snapshot_max,
                                                    required_norads)
                    ELSE {DOMAIN valid_tles} :
                 /\ snapshot' = _build_snapshot(valid_tles, selected_idx, args)
                 /\ events' = _validate_event_links(events, snapshot')
                 /\ top_events' = top_slice(events', args.top_k)
    /\ pc' = "outputs"
    /\ UNCHANGED <<raw_tles, args, tles, valid_tles, positions_km, candidate_stream,
                   stream_idx, best_by_pair, pair_order, pair_idx, refined, row_idx,
                   event_groups, top_conjunctions>>
    /\ UNCHANGED <<gate_vars, plan_vars, artifact_vars, call_vars>>

\* line 783, _write_top_outputs
WriteTopOutputs ==
    /\ pc = "outputs"
    /\ top_conjunctions' = top_events
    /\ pc' = "exit_0"
    /\ UNCHANGED <<raw_tles, args, tles, valid_tles, positions_km, candidate_stream,
                   stream_idx, best_by_pair, pair_order, pair_idx, refined, row_idx,
                   events, event_groups, top_events, snapshot>>
    /\ UNCHANGED <<gate_vars, plan_vars, artifact_vars, call_vars>>

NextScreen ==
    \/ LoadCatalog
    \/ Propagate
    \/ CandidateGeneration
    \/ FoldStep
    \/ FoldDone
    \/ RefineStep
    \/ RefineFail
    \/ RefineDone
    \/ ScoreRowFiltered
    \/ ScoreRow
    \/ SortEvents
    \/ BuildSnapshot
    \/ WriteTopOutputs

SpecScreen == InitScreen /\ [][NextScreen]_vars

(***************************************************************************)
(* SpecScoreLoop: the screening run, together with runs whose refinement    *)
(* is replaced by one that reports pairs in either id order (the scoring    *)
(* loop entered at line 556 with such a list).                              *)
(***************************************************************************)

SubstituteCatalog == << Tle(99, 1, "FENGYUN-1C-DEBRIS"), Tle(5, 1, "ACTIVE") >>

SubstituteRows(tle_list) ==
    {refined_row(tle_list, pair, 1, Dt, 1, miss_distance_m) :
        pair \in {<<1, 2>>, <<2, 1>>}, miss_distance_m \in RefinedMisses}

InitScoreLoop ==
    /\ pc = "score"
    /\ raw_tles = SubstituteCatalog
    /\ args \in {a \in ScreenArgs : a.max_objects = 3}
    /\ tles = load_latest_tles(raw_tles, ScreenGroups, args.max_objects, TRUE, TRUE)
    /\ valid_tles = tles
    /\ refined \in UNION {[1..n -> SubstituteRows(valid_tles)] : n \in 1..2}
    /\ row_idx = 1
    /\ events = <<>>
    /\ event_groups = <<>>
    /\ positions_km = NULL /\ candidate_stream = NULL /\ stream_idx = NULL
    /\ best_by_pair = NULL /\ pair_order = NULL /\ pair_idx = NULL
    /\ top_events = NULL /\ snapshot = NULL /\ top_conjunctions = NULL
    /\ IdleGate /\ IdlePlan /\ IdleArtifacts /\ IdleCall

SpecScoreLoop == (InitScreen \/ InitScoreLoop) /\ [][NextScreen]_vars

\* How far the run has come.
Refining == pc \in {"refine", "score", "snapshot", "outputs", "exit_0"}
Scoring  == pc \in {"score", "snapshot", "outputs", "exit_0"}
Sorted   == pc \in {"snapshot", "outputs", "exit_0"}
Written  == pc = "exit_0"

\* The event lists of the run that exist in the current state.
EventLists ==
    (IF Scoring THEN {events} ELSE {})
    \cup (IF Sorted THEN {top_events} ELSE {})
    \cup (IF Written THEN {top_conjunctions} ELSE {})

(***************************************************************************)
(* C7: every emitted event has primary_id < secondary_id and event_id       *)
(* "EVT-{primary_id}-{secondary_id}-{tca_utc}"; a refined row that arrives  *)
(* with the larger id first yields the event with the ids swapped, and the  *)
(* recorded source groups are swapped with them (each group stays with its  *)
(* object).                                                                 *)
(***************************************************************************)
GroupOfId(row, id) ==
    IF id = row.primary_id THEN row.primary_group ELSE row.secondary_group

C7_EventCanonical(e) ==
    /\ e.primary_id < e.secondary_id
    /\ e.event_id = <<69, 86, 84, 45>> \o int_codes(e.primary_id) \o <<45>>
                    \o int_codes(e.secondary_id) \o <<45>> \o iso_codes(e.tca_utc.iso)

C7_RowScored ==
    (pc = "score" /\ pc' = "score" /\ Len(events') = Len(events) + 1)
       => LET row == refined[row_idx]
              e   == events'[Len(events')]
          IN  /\ e.primary_id = Min(row.primary_id, row.secondary_id)
              /\ e.secondary_id = Max(row.primary_id, row.secondary_id)
              /\ e.tca_utc = row.tca_utc
              /\ event_groups'[e.event_id] =
                    <<GroupOfId(row, e.primary_id), GroupOfId(row, e.secondary_id)>>

C7_CanonicalPair ==
    /\ [](\A l \in EventLists : \A k \in DOMAIN l : C7_EventCanonical(l[k]))
    /\ [][C7_RowScored]_vars

\* A row that arrived as (99, 5) has been scored into an event (5, 99).
C7_Witness ==
    /\ pc = "exit_0"
    /\ \E k \in DOMAIN refined, m \in DOMAIN top_conjunctions :
          /\ refined[k].secondary_id < refined[k].primary_id
          /\ top_conjunctions[m].primary_id = refined[k].secondary_id
          /\ top_conjunctions[m].secondary_id = refined[k].primary_id
          /\ top_conjunctions[m].tca_utc = refined[k].tca_utc

(***************************************************************************)
(* C8: the fold keeps, for every pair of the candidate stream, the          *)
(* timestep of its smallest distance among the timesteps where it was a     *)
(* candidate, the earliest one on ties; refinement yields at most one row   *)
(* per pair, and no two emitted events share (primary_id, secondary_id) or  *)
(* event_id.  (best_by_pair is written by the fold only, so its content is  *)
(* examined while the fold and the refinement run.)                         *)
(***************************************************************************)
FoldedItems == {k \in DOMAIN candidate_stream : k < stream_idx}

CandidateTimes(pair) ==
    {candidate_stream[k].t_idx : k \in {m \in FoldedItems : candidate_stream[m].pair = pair}}

ClosestTimes(pair) ==
    {t \in CandidateTimes(pair) :
        \A u \in CandidateTimes(pair) :
            pair_dist_m(positions_km, t, pair) <= pair_dist_m(positions_km, u, pair)}

EarliestOf(T) == CHOOSE t \in T : \A u \in T : t <= u

NoSharedPair(l) ==
    \A k, m \in DOMAIN l :
        k # m => /\ <<l[k].primary_id, l[k].secondary_id>>
                       # <<l[m].primary_id, l[m].secondary_id>>
                 /\ l[k].event_id # l[m].event_id

C8_OneEventPerPair ==
    /\ (pc = "fold" \/ pc = "refine") =>
          /\ DOMAIN best_by_pair = {candidate_stream[k].pair : k \in FoldedItems}
          /\ \A pair \in DOMAIN best_by_pair :
                /\ pair[1] < pair[2]
                /\ best_by_pair[pair][2] = EarliestOf(ClosestTimes(pair))
                /\ best_by_pair[pair][1] =
                      pair_dist_m(positions_km, best_by_pair[pair][2], pair)
    /\ Refining =>
          \A k, m \in DOMAIN refined :
              k # m => <<refined[k].primary_id, refined[k].secondary_id>>
                          # <<refined[m].primary_id, refined[m].secondary_id>>
    /\ \A l \in EventLists : NoSharedPair(l)

\* A run that wrote two events after a fold in which one pair was closest at
\* two timesteps and another was closest after its first candidate timestep.
C8_Witness ==
    /\ pc = "exit_0"
    /\ Len(top_conjunctions) >= 2
    /\ \E pair \in DOMAIN best_by_pair : Cardinality(ClosestTimes(pair)) >= 2
    /\ \E pair \in DOMAIN best_by_pair :
          best_by_pair[pair][2] > EarliestOf(CandidateTimes(pair))

(***************************************************************************)
(* C9: in the events written to top_conjunctions.json every adjacent pair   *)
(* a, b has a.risk_score > b.risk_score, or equal risk_score and            *)
(* a.miss_distance_m <= b.miss_distance_m; and at most top_k events are     *)
(* written.                                                                 *)
(***************************************************************************)
TopKOrdered(l) ==
    \A k \in 1..(Len(l) - 1) :
        \/ l[k].risk_score > l[k + 1].risk_score
        \/ /\ l[k].risk_score = l[k + 1].risk_score
           /\ l[k].miss_distance_m <= l[k + 1].miss_distance_m

\* As stated: the count is bounded by top_k itself.
C9_Original ==
    Written =>
        /\ TopKOrdered(top_conjunctions)
        /\ Len(top_conjunctions) <= args.top_k

\* As the code has it: the count is bounded by max(0, top_k).
C9_TopKOrderedAndClamped ==
    Written =>
        /\ TopKOrdered(top_conjunctions)
        /\ Len(top_conjunctions) <= Max(0, args.top_k)

\* Two events of equal risk written in order of miss distance, a third cut off.
C9_Witness ==
    /\ pc = "exit_0"
    /\ Len(top_conjunctions) = 2
    /\ Len(events) > 2
    /\ top_conjunctions[1].risk_score = top_conjunctions[2].risk_score
    /\ top_conjunctions[1].miss_distance_m < top_conjunctions[2].miss_distance_m

(***************************************************************************)
(* C10: any two emitted events with equal risk_score and equal              *)
(* miss_distance_m appear in ascending lexicographic order of event_id.     *)
(***************************************************************************)
C10_TiesByEventId ==
    Written =>
        \A k, m \in DOMAIN top_conjunctions :
            (/\ k < m
             /\ top_conjunctions[k].risk_score = top_conjunctions[m].risk_score
             /\ top_conjunctions[k].miss_distance_m = top_conjunctions[m].miss_distance_m)
               => CodesLess(top_conjunctions[k].event_id, top_conjunctions[m].event_id)

(***************************************************************************)
(* C11: every event written to top_conjunctions.json has its primary_id and *)
(* its secondary_id among the snapshot's norad_ids and a tca_index_snapshot *)
(* that indexes the snapshot's times_utc, whatever the snapshot options.    *)
(***************************************************************************)
C11_WrittenEventsLinked ==
    Written =>
        \A k \in DOMAIN top_conjunctions :
            /\ top_conjunctions[k].primary_id \in snapshot.norad_ids
            /\ top_conjunctions[k].secondary_id \in snapshot.norad_ids
            /\ top_conjunctions[k].tca_index_snapshot >= 0
            /\ top_conjunctions[k].tca_index_snapshot < Len(snapshot.times_utc)

\* An event was written although balanced sampling left an object of the
\* run out of the snapshot.
C11_Witness ==
    /\ Written
    /\ Len(top_conjunctions) >= 1
    /\ Cardinality(snapshot.norad_ids) < Len(valid_tles)

(***************************************************************************)
(* SpecArtifacts: screening runs (run_screening.py main) and autonomy-loop  *)
(* requests (run_autonomy_loop_internal) working on one artifact directory. *)
(* A file's bytes are named by who wrote them and in which run: every       *)
(* payload carries the generated_at_utc (or the run id) of its run.  A run  *)
(* can stop between any two statements (an exception of a stage, an         *)
(* interrupt); a write_text call is one step.                               *)
(***************************************************************************)

MaxRuns == 2
MaxLoops == 2

SnapshotFile == "cesium_orbits_snapshot.json"
PlansFile    == "maneuver_plans.json"
TopJsonFile  == "top_conjunctions.json"
TopCsvFile   == "top_conjunctions.csv"
ManifestFile == "artifacts_latest.json"
AutonomyFile == "autonomy_run_result_latest.json"

ArtifactFiles ==
    {SnapshotFile, PlansFile, TopJsonFile, TopCsvFile, ManifestFile, AutonomyFile}

\* _write_json: the bytes of a payload written by `writer` in its run `id`.
_write_json(writer, id, payload) == [writer |-> writer, id |-> id, payload |-> payload]

\* _sha256_file: the digest of the bytes now on disk under `path`.
_sha256_file(path) == [sha256_of |-> disk[path]]

_build_artifact_entry(path) == [path |-> path, sha256 |-> _sha256_file(path)]

\* ArtifactsLatest of _write_artifacts_latest, called with latest_run_id=None.
_write_artifacts_latest(top_conjunctions_path, cesium_snapshot_path, maneuver_plans_path) ==
    [latest_run_id |-> NULL,
     artifacts |-> [top_conjunctions |-> _build_artifact_entry(top_conjunctions_path),
                    cesium_snapshot  |-> _build_artifact_entry(cesium_snapshot_path),
                    maneuver_plans   |-> _build_artifact_entry(maneuver_plans_path)]]

\* The manifest of the autonomy loop: the entries of the manifest read at
\* the start of the request, and the entry of the run result just written.
updated_manifest(manifest, loop_run_id) ==
    LET artifacts == manifest.payload.artifacts
        names     == (DOMAIN artifacts) \cup {"autonomy_run_result"}
    IN  [latest_run_id |-> loop_run_id,
         artifacts |-> [n \in names |->
                           IF n = "autonomy_run_result"
                           THEN _build_artifact_entry(AutonomyFile)
                           ELSE artifacts[n]]]

RunStages == {"config", "load", "propagate", "screen", "snapshot",
              "trend_and_plans", "outputs", "manifest"}
RunEnded  == {"idle", "exit_0", "exit_1", "aborted"}

InitArtifacts ==
    /\ pc = "idle"
    /\ disk = [f \in ArtifactFiles |-> NULL]
    /\ run_id = 0
    /\ loop_pc = "idle"
    /\ loop_id = 0
    /\ latest_manifest = NULL
    /\ IdleGate /\ IdlePlan /\ IdleScreen /\ IdleCall

\* python scripts/run_screening.py
RunStart ==
    /\ pc \in RunEnded
    /\ run_id < MaxRuns
    /\ run_id' = run_id + 1
    /\ pc' = "config"
    /\ UNCHANGED <<disk, loop_pc, loop_id, latest_manifest>>
    /\ UNCHANGED <<gate_vars, plan_vars, screen_vars, call_vars>>

\* lines 477-522: the stages before screening, when they pass
RunStagePass ==
    /\ pc \in {"config", "load", "propagate"}
    /\ pc' = CASE pc = "config"    -> "load"
               [] pc = "load"      -> "propagate"
               [] pc = "propagate" -> "screen"
    /\ UNCHANGED <<disk, run_id, loop_pc, loop_id, latest_manifest>>
    /\ UNCHANGED <<gate_vars, plan_vars, screen_vars, call_vars>>

\* lines 477-522: `return 1` on no valid group, a missing database, an
\* empty catalog or no propagated object
RunExitOne ==
    /\ pc \in {"config", "load", "propagate"}
    /\ pc' = "exit_1"
    /\ UNCHANGED <<disk, run_id, loop_pc, loop_id, latest_manifest>>
    /\ UNCHANGED <<gate_vars, plan_vars, screen_vars, call_vars>>

\* lines 524-609: candidate generation, refinement, scoring, sorting
RunScreen ==
    /\ pc = "screen"
    /\ pc' = "snapshot"
    /\ UNCHANGED <<disk, run_id, loop_pc, loop_id, latest_manifest>>
    /\ UNCHANGED <<gate_vars, plan_vars, screen_vars, call_vars>>

\* lines 617-652: the snapshot is built and written
RunWriteSnapshot ==
    /\ pc = "snapshot"
    /\ disk' = [disk EXCEPT ![SnapshotFile] =
                   _write_json("run_screening", run_id, "CesiumSnapshot")]
    /\ pc' = "trend_and_plans"
    /\ UNCHANGED <<run_id, loop_pc, loop_id, latest_manifest>>
    /\ UNCHANGED <<gate_vars, plan_vars, screen_vars, call_vars>>

\* lines 654-781: trend gate and plans of the top events, maneuver_plans.json
RunWriteManeuverPlans ==
    /\ pc = "trend_and_plans"
    /\ disk' = [disk EXCEPT ![PlansFile] =
                   _write_json("run_screening", run_id, "ManeuverPlansArtifact")]
    /\ pc' = "outputs"
    /\ UNCHANGED <<run_id, loop_pc, loop_id, latest_manifest>>
    /\ UNCHANGED <<gate_vars, plan_vars, screen_vars, call_vars>>

\* line 783: _write_top_outputs writes the JSON and the CSV file
RunWriteTopOutputs ==
    /\ pc = "outputs"
    /\ disk' = [disk EXCEPT
                   ![TopJsonFile] = _write_json("run_screening", run_id, "TopConjunctionsArtifact"),
                   ![TopCsvFile]  = _write_json("run_screening", run_id, "csv")]
    /\ pc' = "manifest"
    /\ UNCHANGED <<run_id, loop_pc, loop_id, latest_manifest>>
    /\ UNCHANGED <<gate_vars, plan_vars, screen_vars, call_vars>>

\* lines 784-808: the manifest is written and main returns 0
RunWriteArtifactsLatest ==
    /\ pc = "manifest"
    /\ disk' = [disk EXCEPT ![ManifestFile] =
                   _write_json("run_screening", run_id,
                               _write_artifacts_latest(TopJsonFile, SnapshotFile, PlansFile))]
    /\ pc' = "exit_0"
    /\ UNCHANGED <<run_id, loop_pc, loop_id, latest_manifest>>
    /\ UNCHANGED <<gate_vars, plan_vars, screen_vars, call_vars>>

\* An abort that also refreshes the manifest.
RunAbort_refreshing_manifest ==
    /\ pc \in RunStages
    /\ disk' = [disk EXCEPT ![ManifestFile] =
                   _write_json("run_screening", run_id,
                               _write_artifacts_latest(TopJsonFile, SnapshotFile, PlansFile))]
    /\ pc' = "aborted"
    /\ UNCHANGED <<run_id, loop_pc, loop_id, latest_manifest>>
    /\ UNCHANGED <<gate_vars, plan_vars, screen_vars, call_vars>>

\* main catches nothing: an exception raised in a stage, or an interrupt,
\* ends the process where it stands.
RunAbort ==
    /\ pc \in RunStages
    /\ pc' = "aborted"
    /\ UNCHANGED <<disk, run_id, loop_pc, loop_id, latest_manifest>>
    /\ UNCHANGED <<gate_vars, plan_vars, screen_vars, call_vars>>

\* api main.py lines 401-408: a request arrives; without a manifest it is
\* answered 404
LoopStart ==
    /\ loop_pc \in {"idle", "done", "failed"}
    /\ loop_id < MaxLoops
    /\ loop_id' = loop_id + 1
    /\ IF disk[ManifestFile] = NULL
       THEN loop_pc' = "failed" /\ latest_manifest' = NULL
       ELSE loop_pc' = "decide" /\ latest_manifest' = disk[ManifestFile]
    /\ UNCHANGED <<pc, disk, run_id>>
    /\ UNCHANGED <<gate_vars, plan_vars, screen_vars, call_vars>>

\* api main.py lines 409-771: the decision is taken and the run result written
LoopWriteRunResult ==
    /\ loop_pc = "decide"
    /\ disk' = [disk EXCEPT ![AutonomyFile] =
                   _write_json("run_autonomy_loop", loop_id, "result")]
    /\ loop_pc' = "manifest"
    /\ UNCHANGED <<pc, run_id, loop_id, latest_manifest>>
    /\ UNCHANGED <<gate_vars, plan_vars, screen_vars, call_vars>>

\* api main.py lines 773-787
LoopWriteArtifactsLatest ==
    /\ loop_pc = "manifest"
    /\ disk' = [disk EXCEPT ![ManifestFile] =
                   _write_json("run_autonomy_loop", loop_id,
                               updated_manifest(latest_manifest, loop_id))]
    /\ loop_pc' = "done"
    /\ UNCHANGED <<pc, run_id, loop_id, latest_manifest>>
    /\ UNCHANGED <<gate_vars, plan_vars, screen_vars, call_vars>>

\* An HTTPException or any other error of the request
LoopAbort ==
    /\ loop_pc \in {"decide", "manifest"}
    /\ loop_pc' = "failed"
    /\ UNCHANGED <<pc, disk, run_id, loop_id, latest_manifest>>
    /\ UNCHANGED <<gate_vars, plan_vars, screen_vars, call_vars>>

NextArtifacts ==
    \/ RunStart
    \/ RunStagePass
    \/ RunExitOne
    \/ RunScreen
    \/ RunWriteSnapshot
    \/ RunWriteManeuverPlans
    \/ RunWriteTopOutputs
    \/ RunWriteArtifactsLatest
    \/ RunAbort
    \/ LoopStart
    \/ LoopWriteRunResult
    \/ LoopWriteArtifactsLatest
    \/ LoopAbort

SpecArtifacts == InitArtifacts /\ [][NextArtifacts]_vars

\* The file holds bytes written by run `id` of `writer`.
WrittenBy(file, writer, id) ==
    /\ disk[file] # NULL
    /\ disk[file].writer = writer
    /\ disk[file].id = id

OfThisRun(file) == WrittenBy(file, "run_screening", run_id)

(***************************************************************************)
(* C12: in every state reachable by screening runs (completed or aborted    *)
(* anywhere) and autonomy-loop runs on one artifact directory, each         *)
(* artifact entry of artifacts_latest.json carries the SHA-256 of the bytes *)
(* now on disk under the entry's path.                                      *)
(***************************************************************************)
C12_ManifestHashesCurrent ==
    disk[ManifestFile] # NULL =>
        LET artifacts == disk[ManifestFile].payload.artifacts
        IN  \A name \in DOMAIN artifacts :
                artifacts[name].sha256 = _sha256_file(artifacts[name].path)

(***************************************************************************)
(* C13: a screening run that ends in a fatal error (exit code 1 or an       *)
(* exception), at whatever stage, leaves artifacts_latest.json as it was:   *)
(* the run writes the manifest only after its own snapshot, top_conjunctions*)
(* and maneuver_plans files, and writes no file after it.                   *)
(***************************************************************************)
C13_RunLeavesManifest ==
    \/ (pc = "manifest" /\ pc' = "exit_0")
    \/ (loop_pc = "manifest" /\ loop_pc' = "done")
    \/ disk'[ManifestFile] = disk[ManifestFile]

C13_ManifestLast ==
    /\ [](/\ pc \in (RunStages \cup {"exit_1", "aborted"}) => ~ OfThisRun(ManifestFile)
          /\ OfThisRun(ManifestFile) =>
                /\ OfThisRun(SnapshotFile)
                /\ OfThisRun(TopJsonFile)
                /\ OfThisRun(PlansFile))
    /\ [][C13_RunLeavesManifest]_vars
    /\ [][(pc = "exit_0" /\ loop_pc' = loop_pc) => disk' = disk]_vars

\* A run died after writing its snapshot; the manifest on disk is the one
\* of the run before it.
C13_Witness ==
    /\ pc = "aborted"
    /\ run_id = 2
    /\ OfThisRun(SnapshotFile)
    /\ WrittenBy(ManifestFile, "run_screening", 1)

(***************************************************************************)
(* C14: a screening run that is cancelled at a stage boundary or aborts on  *)
(* a fatal error has written no artifact: the directory holds no snapshot,  *)
(* top_conjunctions (JSON, CSV), maneuver_plans or manifest file of that    *)
(* run.                                                                     *)
(***************************************************************************)
C14_AbortedRunWritesNothing ==
    pc \in {"exit_1", "aborted"} =>
        \A file \in {SnapshotFile, TopJsonFile, TopCsvFile, PlansFile, ManifestFile} :
            ~ OfThisRun(file)

(***************************************************************************)
(* C15: within one run the files are written in the order snapshot,         *)
(* top_conjunctions, maneuver_plans, manifest: a file of the run is on disk *)
(* only if the files before it in that order are, and the run writes        *)
(* nothing after the manifest.                                              *)
(***************************************************************************)
C15_WriteOrder ==
    /\ OfThisRun(TopJsonFile) => OfThisRun(SnapshotFile)
    /\ OfThisRun(PlansFile) => OfThisRun(TopJsonFile)
    /\ OfThisRun(ManifestFile) => OfThisRun(PlansFile)
    /\ OfThisRun(ManifestFile) => pc = "exit_0"

(***************************************************************************)
(* C16: the driver fails fast on every empty intermediate set: a run goes   *)
(* past loading, propagation, candidate generation, refinement and scoring  *)
(* only with a non-empty catalog, object list, candidate list, refined list *)
(* and event list, and a run that exits with code 1 has written nothing.    *)
(***************************************************************************)
C16_FailFastOnEmpty ==
    /\ pc \notin {"load", "exit_1"} => Len(tles) > 0
    /\ pc \notin {"load", "propagate", "exit_1"} => Len(valid_tles) > 0
    /\ pc \in {"fold", "refine"} \/ Scoring => Len(candidate_stream) > 0
    /\ Scoring => Len(refined) > 0
    /\ Sorted => Len(events) > 0
    /\ pc = "exit_1" => (snapshot = NULL /\ top_conjunctions = NULL)

(***************************************************************************)
(* SpecHash: candidate_pairs_by_timestep applied to a positions grid of two *)
(* timesteps and three objects on lattice points of either sign, with voxel *)
(* edges that are negative, zero and positive.                              *)
(***************************************************************************)

HashPoints ==
    {<<-3, 0, 0>>, <<-1, 0, 1>>, <<1, 0, 0>>, <<4, 0, 0>>, <<1, 3, -1>>}
HashPositions == [1..2 -> [1..3 -> HashPoints]]
HashVoxels == {-1, 0, 2, 3}

InitHash ==
    /\ pc = "hash"
    /\ positions_km \in HashPositions
    /\ args \in [voxel_km : HashVoxels]
    /\ raw_tles = NULL /\ tles = NULL /\ valid_tles = NULL
    /\ candidate_stream = NULL /\ stream_idx = NULL /\ best_by_pair = NULL
    /\ pair_order = NULL /\ pair_idx = NULL /\ refined = NULL /\ row_idx = NULL
    /\ events = NULL /\ event_groups = NULL /\ top_events = NULL
    /\ snapshot = NULL /\ top_conjunctions = NULL
    /\ IdleGate /\ IdlePlan /\ IdleArtifacts /\ IdleCall

\* spatial_hash.py lines 20-67, the call and its result
CandidatePairsByTimestep ==
    /\ pc = "hash"
    /\ candidate_stream' = candidate_pairs_by_timestep(positions_km, args.voxel_km)
    /\ pc' = "hash_done"
    /\ UNCHANGED <<raw_tles, args, tles, valid_tles, positions_km, stream_idx,
                   best_by_pair, pair_order, pair_idx, refined, row_idx, events,
                   event_groups, top_events, snapshot, top_conjunctions>>
    /\ UNCHANGED <<gate_vars, plan_vars, artifact_vars, call_vars>>

NextHash == CandidatePairsByTimestep

SpecHash == InitHash /\ [][NextHash]_vars

\* floor(x / v) for v > 0: the integer q with q * v <= x < (q + 1) * v.
FloorOf(x, v) == CHOOSE q \in -8..8 : q * v <= x /\ x < (q + 1) * v

NeighbouringVoxels(a, b, v) ==
    \A axis \in 1..3 : AbsDiff(FloorOf(a[axis], v), FloorOf(b[axis], v)) <= 1

SeparationSq(a, b) ==
    (a[1] - b[1]) * (a[1] - b[1]) + (a[2] - b[2]) * (a[2] - b[2])
    + (a[3] - b[3]) * (a[3] - b[3])

ObjectPairs(coords) == {p \in (DOMAIN coords) \X (DOMAIN coords) : p[1] < p[2]}

Emitted(t) == {candidate_stream[t].pairs[k] : k \in DOMAIN candidate_stream[t].pairs}

(***************************************************************************)
(* C17: for voxel_km > 0 candidate_pairs_by_timestep returns one item per   *)
(* timestep in ascending t_idx; the pair list of timestep t is the set of   *)
(* the (i, j), i < j, whose voxel coordinates floor(pos / voxel_km) differ  *)
(* by at most one in every axis, without duplicates and ascending;          *)
(* voxel_km <= 0 is rejected with an error.                                 *)
(***************************************************************************)
C17_HashContract ==
    pc = "hash_done" =>
        IF args.voxel_km <= 0
        THEN candidate_stream = "ValueError"
        ELSE /\ DOMAIN candidate_stream = DOMAIN positions_km
             /\ \A t \in DOMAIN candidate_stream :
                   LET pairs == candidate_stream[t].pairs
                   IN  /\ candidate_stream[t].t_idx = t
                       /\ Emitted(t) =
                             {p \in ObjectPairs(positions_km[t]) :
                                 NeighbouringVoxels(positions_km[t][p[1]],
                                                    positions_km[t][p[2]], args.voxel_km)}
                       /\ \A k, m \in DOMAIN pairs :
                             k < m => pair_less(pairs[k], pairs[m])

\* Two pairs of a timestep are emitted and the third is culled, with an
\* object at a negative coordinate.
C17_Witness ==
    /\ pc = "hash_done"
    /\ args.voxel_km > 0
    /\ \E t \in DOMAIN candidate_stream :
          /\ Len(candidate_stream[t].pairs) = 2
          /\ \E i \in DOMAIN positions_km[t] : positions_km[t][i][1] < 0

(***************************************************************************)
(* C18: every pair of objects whose separation at a timestep is at most     *)
(* sqrt(3) * voxel_km is emitted as a candidate pair of that timestep.      *)
(***************************************************************************)
C18_Original ==
    (pc = "hash_done" /\ args.voxel_km > 0) =>
        \A t \in DOMAIN positions_km : \A p \in ObjectPairs(positions_km[t]) :
            SeparationSq(positions_km[t][p[1]], positions_km[t][p[2]])
                  <= 3 * args.voxel_km * args.voxel_km
               => p \in Emitted(t)

\* C18 as it holds: every pair whose separation at a timestep is at most
\* voxel_km is emitted as a candidate pair of that timestep.
C18_WithinVoxelEdgeEmitted ==
    (pc = "hash_done" /\ args.voxel_km > 0) =>
        \A t \in DOMAIN positions_km : \A p \in ObjectPairs(positions_km[t]) :
            SeparationSq(positions_km[t][p[1]], positions_km[t][p[2]])
                  <= args.voxel_km * args.voxel_km
               => p \in Emitted(t)

\* Two objects of different voxels, not farther apart than the voxel edge,
\* are emitted, and a pair within sqrt(3) edges is not.
C18_Witness ==
    /\ pc = "hash_done"
    /\ args.voxel_km > 0
    /\ \E t \in DOMAIN positions_km : \E p, q \in ObjectPairs(positions_km[t]) :
          /\ SeparationSq(positions_km[t][p[1]], positions_km[t][p[2]])
                <= args.voxel_km * args.voxel_km
          /\ voxel_of(positions_km[t][p[1]], args.voxel_km)
                # voxel_of(positions_km[t][p[2]], args.voxel_km)
          /\ p \in Emitted(t)
          /\ SeparationSq(positions_km[t][q[1]], positions_km[t][q[2]])
                <= 3 * args.voxel_km * args.voxel_km
          /\ q \notin Emitted(t)

(***************************************************************************)
(* SpecLoad: load_latest_tles applied to a store of up to three rows, in    *)
(* every order the store can return them, with group lists that need        *)
(* normalizing and with both settings of the two flags.                     *)
(***************************************************************************)

StoreRow(norad_id, epoch_utc, source_group, fetched_at_utc) ==
    [norad_id |-> norad_id, epoch_utc |-> epoch_utc,
     fetched_at_utc |-> fetched_at_utc, source_group |-> source_group]

\* Rows of the tles table: distinct in (norad_id, epoch_utc, source_group).
StoreRows ==
    {StoreRow(5, 1, "ACTIVE", 1), StoreRow(5, 1, "STATIONS", 1),
     StoreRow(5, 2, "ACTIVE", 2), StoreRow(9, 1, "ACTIVE", 1),
     StoreRow(9, 1, "STATIONS", 2), StoreRow(7, 1, "COSMOS-1408-DEBRIS", 1)}

Stores ==
    {rows \in UNION {[1..n -> StoreRows] : n \in 0..3} :
        \A k, m \in DOMAIN rows : k # m => rows[k] # rows[m]}

GroupLists ==
    {<<>>, <<" ">>, <<"active">>, <<"ACTIVE", "STATIONS">>,
     <<" Active ", "ACTIVE", "stations">>, <<"STATIONS", "COSMOS-1408-DEBRIS">>}

LoadArgs ==
    [groups : GroupLists, max_objects : {-1, 0, 1, 2, 3},
     prefer_latest_fetch : BOOLEAN, dedupe_by_norad : BOOLEAN]

InitLoad ==
    /\ pc = "load_call"
    /\ raw_tles \in Stores
    /\ args \in LoadArgs
    /\ IdleRun
    /\ IdleGate /\ IdlePlan /\ IdleArtifacts /\ IdleCall

\* load_catalog.py lines 52-140, the call and its result
LoadLatestTles ==
    /\ pc = "load_call"
    /\ tles' = load_latest_tles(raw_tles, args.groups, args.max_objects,
                                args.prefer_latest_fetch, args.dedupe_by_norad)
    /\ pc' = "load_done"
    /\ UNCHANGED <<raw_tles, args, valid_tles, positions_km, candidate_stream,
                   stream_idx, best_by_pair, pair_order, pair_idx, refined, row_idx,
                   events, event_groups, top_events, snapshot, top_conjunctions>>
    /\ UNCHANGED <<gate_vars, plan_vars, artifact_vars, call_vars>>

NextLoad == LoadLatestTles

SpecLoad == InitLoad /\ [][NextLoad]_vars

\* The requested groups: upper-cased, non-empty, as a set.
RequestedGroups == {upper(strip(args.groups[k])) : k \in DOMAIN args.groups} \ {""}

InRequestedGroups == {raw_tles[k] : k \in DOMAIN raw_tles} \cap
                     {r \in StoreRows : r.source_group \in RequestedGroups}

\* With prefer_latest_fetch, the rows fetched last in their group.
LatestFetched ==
    IF args.prefer_latest_fetch
    THEN {r \in InRequestedGroups :
            \A q \in InRequestedGroups :
                q.source_group = r.source_group => q.fetched_at_utc <= r.fetched_at_utc}
    ELSE InRequestedGroups

\* One row per norad_id, none of which is beaten in (epoch_utc, fetched_at_utc).
OneBestPerNorad(S) ==
    /\ S \subseteq LatestFetched
    /\ {r.norad_id : r \in S} = {r.norad_id : r \in LatestFetched}
    /\ \A r, q \in S : r.norad_id = q.norad_id => r = q
    /\ \A r \in S : \A q \in LatestFetched :
          q.norad_id = r.norad_id =>
             \/ q.epoch_utc < r.epoch_utc
             \/ (q.epoch_utc = r.epoch_utc /\ q.fetched_at_utc <= r.fetched_at_utc)

\* tles lists, in ascending key order, the first max_objects rows of S.
FirstRowsOf(S) ==
    LET listed == {tles[k] : k \in DOMAIN tles}
    IN  /\ listed \subseteq S
        /\ Len(tles) = Min(args.max_objects, Cardinality(S))
        /\ Cardinality(listed) = Len(tles)
        /\ \A k, m \in DOMAIN tles : k < m => ~ tle_key_less(tles[m], tles[k])
        /\ \A r \in listed : \A q \in S \ listed : ~ tle_key_less(q, r)

Reorderings(rows) ==
    {[k \in DOMAIN rows |-> rows[f[k]]] :
        f \in {g \in [DOMAIN rows -> DOMAIN rows] :
                 \A k, m \in DOMAIN rows : k # m => g[k] # g[m]}}

(***************************************************************************)
(* C20: for fixed rows and arguments load_latest_tles returns the same list *)
(* (rows, retained source_group, order) whatever the order in which the     *)
(* store returns the rows, also when a norad_id occurs in several requested *)
(* groups with equal epoch_utc and fetched_at_utc.                          *)
(***************************************************************************)
C20_OrderIndependent ==
    pc = "load_done" =>
        \A rows \in Reorderings(raw_tles) :
            load_latest_tles(rows, args.groups, args.max_objects,
                             args.prefer_latest_fetch, args.dedupe_by_norad) = tles

(***************************************************************************)
(* SpecTimes: _build_times applied to start instants with and without a     *)
(* fractional second, horizons of whole and fractional seconds, and step    *)
(* sizes that are negative, zero and positive.                              *)
(***************************************************************************)

TimesArgs ==
    [start_utc : {RunStarted * TicksPerSecond, RunStarted * TicksPerSecond + 1},
     horizon : 0..(4 * TicksPerSecond + 1),
     dt_s : {-1, 0, 1, 2, 3}]

InitTimes ==
    /\ pc = "times_call"
    /\ args \in TimesArgs
    /\ returned = NULL /\ plans_entries = NULL /\ IdleLoop
    /\ raw_tles = NULL /\ IdleRun
    /\ IdleGate /\ IdlePlan /\ IdleArtifacts

\* propagate.py line 46
BuildTimes ==
    /\ pc = "times_call"
    /\ returned' = _build_times(args.start_utc, args.horizon, args.dt_s)
    /\ pc' = "times_done"
    /\ UNCHANGED <<plans_entries, loop_vars, gate_vars, plan_vars, screen_vars, artifact_vars>>

NextTimes == BuildTimes

SpecTimes == InitTimes /\ [][NextTimes]_vars

(***************************************************************************)
(* C21: for dt_s > 0 and a non-negative horizon the timeline starts at      *)
(* start_utc, is strictly increasing, has spacing dt_s between consecutive  *)
(* samples except for a possibly shorter last gap, and ends exactly at      *)
(* start_utc + horizon; dt_s <= 0 is rejected with an error.                *)
(***************************************************************************)
C21_Timeline ==
    pc = "times_done" =>
        IF args.dt_s <= 0
        THEN returned = "ValueError"
        ELSE LET step == args.dt_s * TicksPerSecond
             IN  /\ Len(returned) >= 1
                 /\ returned[1] = args.start_utc
                 /\ \A k \in 1..(Len(returned) - 1) :
                       /\ returned[k] < returned[k + 1]
                       /\ IF k + 1 < Len(returned)
                          THEN returned[k + 1] - returned[k] = step
                          ELSE returned[k + 1] - returned[k] <= step
                 /\ returned[Len(returned)] = args.start_utc + args.horizon

(***************************************************************************)
(* SpecSamples: _build_sample_times of trend.py applied to windows and      *)
(* cadences that are negative, zero and positive, with cadences that do and *)
(* do not divide the window and cadences longer than the window.            *)
(***************************************************************************)

\* range(start, stop, step) for step > 0
range(start, stop, step) ==
    IF stop <= start THEN <<>>
    ELSE [i \in 1..(((stop - start - 1) \div step) + 1) |-> start + (i - 1) * step]

\* _build_sample_times; tca_utc is the parsed instant in seconds, and so are
\* the samples.
_build_sample_times(tca, window_minutes, cadence_seconds) ==
    LET half_window_s == Max(0, window_minutes) * SecondsPerMinute
        cadence_s     == Max(1, cadence_seconds)
        offsets       == range(0 - half_window_s, half_window_s + 1, cadence_s)
        times         == [i \in DOMAIN offsets |-> tca + offsets[i]]
        some_times    == IF times = <<>> THEN <<tca>> ELSE times
    IN  IF some_times[Len(some_times)] # tca + half_window_s
        THEN Append(some_times, tca + half_window_s)
        ELSE some_times

SampleArgs ==
    [tca : {RunStarted, RunStarted + 7},
     window_minutes : {-1, 0, 1, 2},
     cadence_seconds : {-5, 0, 1, 25, 40, 60, 90, 300}]

InitSamples ==
    /\ pc = "samples_call"
    /\ args \in SampleArgs
    /\ returned = NULL /\ plans_entries = NULL /\ IdleLoop
    /\ raw_tles = NULL /\ IdleRun
    /\ IdleGate /\ IdlePlan /\ IdleArtifacts

\* trend.py, build_local_pc_series' call of _build_sample_times
BuildSampleTimes ==
    /\ pc = "samples_call"
    /\ returned' = _build_sample_times(args.tca, args.window_minutes, args.cadence_seconds)
    /\ pc' = "samples_done"
    /\ UNCHANGED <<plans_entries, loop_vars, gate_vars, plan_vars, screen_vars, artifact_vars>>

NextSamples == BuildSampleTimes

SpecSamples == InitSamples /\ [][NextSamples]_vars

\* The window W and the cadence in seconds, as the function clamps them.
WindowSeconds == Max(0, args.window_minutes) * SecondsPerMinute
CadenceSeconds == Max(1, args.cadence_seconds)

Samples == {returned[k] : k \in DOMAIN returned}

(***************************************************************************)
(* C22: when the trend cadence is larger than the trend window (both in     *)
(* seconds; here even larger than the whole span from TCA - W to TCA + W),  *)
(* the sample grid is the single sample TCA.                                *)
(***************************************************************************)
C22_SingleSampleAtTca ==
    (pc = "samples_done" /\ CadenceSeconds > 2 * WindowSeconds) =>
        returned = <<args.tca>>

(***************************************************************************)
(* C23: for every window W >= 0 and cadence >= 1 the sample times are       *)
(* strictly increasing and centred on TCA (TCA is a sample, and t is one    *)
(* iff 2 * TCA - t is), every sample but the last is TCA + k * cadence for  *)
(* an integer k, and the last sample is TCA + W.                            *)
(***************************************************************************)
C23_SymmetricGrid ==
    (pc = "samples_done" /\ args.window_minutes >= 0 /\ args.cadence_seconds >= 1) =>
        /\ \A k \in 1..(Len(returned) - 1) : returned[k] < returned[k + 1]
        /\ args.tca \in Samples
        /\ \A t \in Samples : (2 * args.tca - t) \in Samples
        /\ \A k \in 1..(Len(returned) - 1) :
              (returned[k] - args.tca) % CadenceSeconds = 0
        /\ returned[Len(returned)] = args.tca + WindowSeconds

(***************************************************************************)
(* SpecPc: pc_assumed_encounter_isotropic of risk.py and the two event      *)
(* fields the scoring loop fills from it.  The value of the quadrature of   *)
(* line 45 is one of the float64 results numpy can hand back: NaN, an       *)
(* infinity, or a finite value below 0, inside [0, 1] or above 1.           *)
(***************************************************************************)

Quadratures ==
    {[kind |-> "nan"], [kind |-> "inf"], [kind |-> "-inf"]}
    \cup {[kind |-> "finite", nano |-> n] : n \in {-5, 0, 3662871, 1000000000, 2000000000}}

PcArgs ==
    [sigma_m : {-300, 0, 300, 500},
     hard_body_radius_m : {-25, 0, 25},
     quadrature : Quadratures]

InitPc ==
    /\ pc = "pc_call"
    /\ args \in PcArgs
    /\ returned = NULL /\ plans_entries = NULL /\ IdleLoop
    /\ raw_tles = NULL /\ IdleRun
    /\ IdleGate /\ IdlePlan /\ IdleArtifacts

\* run_screening.py lines 580-597: pc, risk_score = pc, and the event's
\* pc_assumed = float(pc), risk_score = float(risk_score).
ScorePc ==
    /\ pc = "pc_call"
    /\ LET p == pc_assumed_from_quadrature(args.sigma_m, args.hard_body_radius_m,
                                           args.quadrature)
           risk_score == p
       IN  returned' = [pc_assumed |-> p, risk_score |-> risk_score]
    /\ pc' = "pc_done"
    /\ UNCHANGED <<plans_entries, loop_vars, gate_vars, plan_vars, screen_vars, artifact_vars>>

NextPc == ScorePc

SpecPc == InitPc /\ [][NextPc]_vars

(***************************************************************************)
(* C24: an event's pc_assumed is a finite value with 0 <= pc_assumed <= 1   *)
(* and its risk_score equals it; the Pc function returns exactly 0 when     *)
(* sigma <= 0, when the hard-body radius is <= 0, and when the quadrature   *)
(* is not finite.                                                           *)
(***************************************************************************)
C24_PcRange ==
    pc = "pc_done" =>
        /\ isfinite(returned.pc_assumed)
        /\ 0 <= returned.pc_assumed.nano /\ returned.pc_assumed.nano <= 1000000000
        /\ returned.risk_score = returned.pc_assumed
        /\ (args.sigma_m <= 0 \/ args.hard_body_radius_m <= 0 \/ ~isfinite(args.quadrature))
              => returned.pc_assumed.nano = 0

\* A positive sigma and radius with a NaN quadrature: the function returned 0.
C24_Witness ==
    /\ pc = "pc_done"
    /\ args.sigma_m > 0 /\ args.hard_body_radius_m > 0
    /\ args.quadrature.kind = "nan"
    /\ returned.pc_assumed.nano = 0

\* What the snapshot step and the output step do to the top events.
C25_SnapshotStep ==
    (pc = "snapshot" /\ pc' = "outputs") =>
        (top_events' = top_events /\ event_groups' = event_groups /\ valid_tles' = valid_tles)

C25_OutputStep ==
    (pc = "outputs" /\ pc' = "exit_0") => top_conjunctions' = top_events

(***************************************************************************)
(* C25: the events of top_conjunctions.json and the entries of              *)
(* maneuver_plans.json do not depend on the seed or on whether the balanced *)
(* snapshot is on: whichever objects the snapshot stage selects, it leaves  *)
(* the top events, and the groups and TLEs the plans are computed from, as  *)
(* the risk scoring left them, and they are what is written.                *)
(***************************************************************************)
C25_SeedIndependent == [][C25_SnapshotStep /\ C25_OutputStep]_vars

\* A balanced snapshot that left objects of the catalog out was built while
\* there were top events.
C25_Witness ==
    /\ pc = "outputs"
    /\ top_events # <<>>
    /\ Cardinality(snapshot.norad_ids) < Len(valid_tles)

(***************************************************************************)
(* SpecJoin: GET /artifacts/top-conjunctions?include_plans=1 of the API     *)
(* (apps/api/main.py) for one event of top_conjunctions.json and the        *)
(* plans_by_event_id of maneuver_plans.json.                                *)
(*                                                                          *)
(* A JSON value is NULL or [v |-> value]; an event_id that the pattern      *)
(* EVT-(\d+)-(\d+)-(.+) matches is the record of its three groups, any      *)
(* other id has kind "other".  plans_by_event_id is the list of its         *)
(* (key, entry) items in the order the dict iterates.                       *)
(***************************************************************************)

float_inf == 1000000000

_safe_int(value, default) == IF value = NULL THEN default ELSE value.v

\* datetime.fromisoformat(str(value).replace("Z", "+00:00")), in seconds
\* since 2026-02-22T00:00:00Z; None for None and for text that is no date.
_parse_utc_or_none(value) ==
    IF value = NULL THEN NULL
    ELSE CASE value.v = "2026-02-23T00:00:00Z"      -> [at |-> 86400]
           [] value.v = "2026-02-23T00:01:00Z"      -> [at |-> 86460]
           [] value.v = "2026-02-23T00:03:00Z"      -> [at |-> 86580]
           [] value.v = "2026-02-23T00:03:00+00:00" -> [at |-> 86580]
           [] OTHER                                 -> NULL

\* The pair as the id spells it, (primary, secondary), without sorting.
_extract_event_pair_and_tca_unsorted(event_payload) ==
    LET event_id  == event_payload.event_id
        match     == event_id.kind = "EVT"
        field_tca == _parse_utc_or_none(event_payload.tca_utc)
        tca       == IF match /\ field_tca = NULL
                     THEN _parse_utc_or_none([v |-> event_id.tca])
                     ELSE field_tca
        primary   == IF match THEN event_id.a ELSE _safe_int(event_payload.primary_id, -1)
        secondary == IF match THEN event_id.b ELSE _safe_int(event_payload.secondary_id, -1)
    IN  [pair |-> IF primary >= 0 /\ secondary >= 0
                  THEN [lo |-> primary, hi |-> secondary]
                  ELSE NULL,
         tca  |-> tca]

\* main.py lines 237-264
_extract_event_pair_and_tca(event_payload) ==
    LET event_id  == event_payload.event_id
        match     == event_id.kind = "EVT"
        field_tca == _parse_utc_or_none(event_payload.tca_utc)
        tca       == IF match /\ field_tca = NULL
                     THEN _parse_utc_or_none([v |-> event_id.tca])
                     ELSE field_tca
        primary   == IF match THEN event_id.a ELSE _safe_int(event_payload.primary_id, -1)
        secondary == IF match THEN event_id.b ELSE _safe_int(event_payload.secondary_id, -1)
    IN  [pair |-> IF primary >= 0 /\ secondary >= 0
                  THEN [lo |-> Min(primary, secondary), hi |-> Max(primary, secondary)]
                  ELSE NULL,
         tca  |-> tca]

\* isinstance(value, dict)
isinstance_dict(value) == value # NULL /\ value.is_dict

\* {}: a dict every .get of which is None
empty_dict ==
    [is_dict |-> TRUE, decision_mode_hint |-> NULL, defer_until_utc |-> NULL,
     trend_metrics |-> NULL, maneuver_plan |-> NULL]

\* plans_by_event_id.get(event_id)
plans_get(plans_by_event_id, event_id) ==
    IF \E k \in DOMAIN plans_by_event_id : plans_by_event_id[k].key = event_id
    THEN plans_by_event_id[CHOOSE k \in DOMAIN plans_by_event_id :
                              plans_by_event_id[k].key = event_id].entry
    ELSE NULL

\* The loop of lines 280-299 from item k on; best is NULL or the best so far.
RECURSIVE nearest_candidate(_, _, _, _)
nearest_candidate(target, plans_by_event_id, k, best) ==
    IF k > Len(plans_by_event_id) THEN best
    ELSE LET candidate_event_id == plans_by_event_id[k].key
             candidate_entry    == plans_by_event_id[k].entry
             candidate_identity == [event_id |-> candidate_event_id, tca_utc |-> NULL,
                                    primary_id |-> NULL, secondary_id |-> NULL]
             candidate          == _extract_event_pair_and_tca(candidate_identity)
             delta_seconds      == IF target.tca # NULL /\ candidate.tca # NULL
                                   THEN AbsDiff(candidate.tca.at, target.tca.at)
                                   ELSE float_inf
         IN  IF ~isinstance_dict(candidate_entry) \/ candidate.pair # target.pair
             THEN nearest_candidate(target, plans_by_event_id, k + 1, best)
             ELSE IF best = NULL \/ delta_seconds < best.delta_seconds
             THEN nearest_candidate(target, plans_by_event_id, k + 1,
                                    [entry |-> candidate_entry,
                                     event_id |-> candidate_event_id,
                                     delta_seconds |-> delta_seconds])
             ELSE nearest_candidate(target, plans_by_event_id, k + 1, best)

\* main.py lines 267-303; the second component is None when event_id is NULL
_resolve_plan_entry_for_event(event_payload, plans_by_event_id) ==
    IF plans_by_event_id = <<>> THEN [entry |-> empty_dict, event_id |-> NULL]
    ELSE LET exact == plans_get(plans_by_event_id, event_payload.event_id)
         IN  IF isinstance_dict(exact) THEN [entry |-> exact, event_id |-> event_payload.event_id]
             ELSE LET target == _extract_event_pair_and_tca(event_payload)
                      best   == nearest_candidate(target, plans_by_event_id, 1, NULL)
                  IN  IF target.pair = NULL \/ best = NULL
                      THEN [entry |-> empty_dict, event_id |-> NULL]
                      ELSE [entry |-> best.entry, event_id |-> best.event_id]

\* main.py lines 822-832: the keys added to the event
plan_hints(plan_entry) ==
    LET trend_dict    == IF isinstance_dict(plan_entry.trend_metrics)
                         THEN plan_entry.trend_metrics
                         ELSE [is_dict |-> TRUE, pc_peak |-> NULL, pc_slope |-> NULL,
                               pc_stability |-> NULL]
        plan_dict     == IF isinstance_dict(plan_entry.maneuver_plan)
                         THEN plan_entry.maneuver_plan
                         ELSE [is_dict |-> TRUE, delta_v_mps |-> NULL, burn_time_utc |-> NULL]
    IN  [decision_mode_hint |-> plan_entry.decision_mode_hint,
         defer_until_utc    |-> plan_entry.defer_until_utc,
         trend_pc_peak      |-> trend_dict.pc_peak,
         trend_pc_slope     |-> trend_dict.pc_slope,
         trend_pc_stability |-> trend_dict.pc_stability,
         plan_delta_v_mps   |-> plan_dict.delta_v_mps,
         plan_burn_time_utc |-> plan_dict.burn_time_utc]

TcaTexts ==
    {"2026-02-23T00:00:00Z", "2026-02-23T00:01:00Z", "2026-02-23T00:03:00Z",
     "2026-02-23T00:03:00+00:00", "TBD"}

OtherId == [kind |-> "other", a |-> 0, b |-> 0, tca |-> ""]

EventIds ==
    {[kind |-> "EVT", a |-> ids[1], b |-> ids[2], tca |-> text] :
        ids \in {<<1, 2>>, <<2, 1>>, <<1, 3>>}, text \in TcaTexts}
    \cup {OtherId}

\* The events of a top_conjunctions.json: an EVT id with the fields it was
\* formatted from, or another id with or without the id fields.
TopEvents ==
    {[event_id |-> id, tca_utc |-> [v |-> id.tca],
      primary_id |-> [v |-> id.a], secondary_id |-> [v |-> id.b]] :
        id \in EventIds \ {OtherId}}
    \cup {[event_id |-> OtherId, tca_utc |-> [v |-> "2026-02-23T00:01:00Z"],
           primary_id |-> ids, secondary_id |-> [v |-> 1]] : ids \in {NULL, [v |-> 2]}}

\* A MANEUVER entry with a plan, a DEFER entry without one, and a value
\* that is no dict.
PlanEntryValues ==
    {[is_dict |-> TRUE, decision_mode_hint |-> [v |-> "MANEUVER"], defer_until_utc |-> NULL,
      trend_metrics |-> [is_dict |-> TRUE, pc_peak |-> [v |-> 3], pc_slope |-> [v |-> 1],
                         pc_stability |-> [v |-> 2]],
      maneuver_plan |-> [is_dict |-> TRUE, delta_v_mps |-> [v |-> 5],
                         burn_time_utc |-> [v |-> "2026-02-22T12:00:00Z"]]],
     [is_dict |-> TRUE, decision_mode_hint |-> [v |-> "DEFER"],
      defer_until_utc |-> [v |-> "2026-02-22T06:00:00Z"],
      trend_metrics |-> [is_dict |-> TRUE, pc_peak |-> [v |-> 1], pc_slope |-> [v |-> 0],
                         pc_stability |-> [v |-> 0]],
      maneuver_plan |-> NULL],
     [is_dict |-> FALSE]}

\* How many items plans_by_event_id holds.
PlanCounts == {0, 1, 2}

PlanDicts ==
    {items \in UNION {[1..n -> [key : EventIds, entry : PlanEntryValues]] : n \in PlanCounts} :
        \A i, j \in DOMAIN items : i # j => items[i].key # items[j].key}

InitJoin ==
    /\ pc = "join_call"
    /\ args \in [event : TopEvents, plans_by_event_id : PlanDicts]
    /\ returned = NULL /\ plans_entries = NULL /\ IdleLoop
    /\ raw_tles = NULL /\ IdleRun
    /\ IdleGate /\ IdlePlan /\ IdleArtifacts

\* main.py lines 809-836, one event of the payload
GetTopConjunctions ==
    /\ pc = "join_call"
    /\ LET resolved == _resolve_plan_entry_for_event(args.event, args.plans_by_event_id)
       IN  returned' = plan_hints(resolved.entry)
    /\ pc' = "join_done"
    /\ UNCHANGED <<plans_entries, loop_vars, gate_vars, plan_vars, screen_vars, artifact_vars>>

NextJoin == GetTopConjunctions

SpecJoin == InitJoin /\ [][NextJoin]_vars

\* The items of plans_by_event_id that are entries (dicts).
Entries == {k \in DOMAIN args.plans_by_event_id : args.plans_by_event_id[k].entry.is_dict}

ExactEntries == {k \in Entries : args.plans_by_event_id[k].key = args.event.event_id}

\* The unordered pair and the instant an id or an event stands for.
PairOfId(id) == {id.a, id.b}
EventPair ==
    IF args.event.event_id.kind = "EVT" THEN PairOfId(args.event.event_id)
    ELSE IF args.event.primary_id = NULL THEN {}
    ELSE {args.event.primary_id.v, args.event.secondary_id.v}

SamePairEntries ==
    {k \in Entries : /\ args.plans_by_event_id[k].key.kind = "EVT"
                     /\ PairOfId(args.plans_by_event_id[k].key) = EventPair}

\* Seconds between the entry's TCA and the event's; float_inf when either
\* is no date.
TcaDistance(k) ==
    LET mine   == _parse_utc_or_none(args.event.tca_utc)
        theirs == _parse_utc_or_none([v |-> args.plans_by_event_id[k].key.tca])
    IN  IF mine = NULL \/ theirs = NULL THEN float_inf ELSE AbsDiff(mine.at, theirs.at)

NearestEntries ==
    {k \in SamePairEntries : \A m \in SamePairEntries : TcaDistance(k) <= TcaDistance(m)}

AllNull ==
    [decision_mode_hint |-> NULL, defer_until_utc |-> NULL, trend_pc_peak |-> NULL,
     trend_pc_slope |-> NULL, trend_pc_stability |-> NULL, plan_delta_v_mps |-> NULL,
     plan_burn_time_utc |-> NULL]

(***************************************************************************)
(* C26: the hints added to an event are those of the entry stored under     *)
(* exactly its event_id when there is one; otherwise those of an entry      *)
(* whose id encodes the same unordered pair and whose TCA is nearest to the *)
(* event's; and when there is no such entry, or no plans at all, the seven  *)
(* keys are present and all null.                                           *)
(***************************************************************************)
C26_PlanJoin ==
    pc = "join_done" =>
        IF ExactEntries # {}
        THEN \E k \in ExactEntries : returned = plan_hints(args.plans_by_event_id[k].entry)
        ELSE IF SamePairEntries # {}
        THEN \E k \in NearestEntries : returned = plan_hints(args.plans_by_event_id[k].entry)
        ELSE returned = AllNull

\* No entry under the event's id and two entries of its pair, written in the
\* other order and at different distances: the nearer, a MANEUVER entry, was
\* joined.
C26_Witness ==
    /\ pc = "join_done"
    /\ ExactEntries = {}
    /\ Cardinality(SamePairEntries) = 2
    /\ Cardinality(NearestEntries) = 1
    /\ \A k \in SamePairEntries :
          args.plans_by_event_id[k].key.a # args.event.event_id.a
    /\ returned.decision_mode_hint = [v |-> "MANEUVER"]
    /\ returned.defer_until_utc = NULL

(***************************************************************************)
(* SpecCli: the control flow of one run of run_screening.py for --dt,       *)
(* --dt-refine and --voxel-km that are negative, zero and positive, down to *)
(* the while loop that builds refine_times for each candidate pair          *)
(* (conjunction.py lines 106-112).  An exception nobody catches ends the    *)
(* interpreter with status 1.  SpecCliFair adds that the interpreter keeps  *)
(* executing while there is a statement to execute.                         *)
(***************************************************************************)

\* The earliest datetime (datetime.min); below it cursor + timedelta raises
\* OverflowError.
datetime_min == 0

\* Entries of refine_times the model keeps; a longer list is kept at this
\* length (the legitimate timelines are shorter).
MaxTimeline == 8

\* conjunction.py lines 100-103
refine_window(coarse_idx) ==
    LET i0 == Max(1, coarse_idx - refine_half_window_steps)
        i1 == Min(time_count, coarse_idx + refine_half_window_steps)
    IN  [t_start |-> times_utc(i0), t_end |-> times_utc(i1)]

CliArgs ==
    [dt : {0 - Dt, 0, Dt}, dt_refine : {-400, 0, 400, 600}, voxel_km : {-5, 0, 5}]

\* best_by_pair after the fold: the coarse index of the pairs found.
CliBestByPair ==
    UNION {[keys -> {<<0, c>> : c \in 1..time_count}] :
              keys \in SUBSET {<<1, 2>>, <<1, 3>>}}

CliPairOrders(best) ==
    {order \in UNION {[1..n -> DOMAIN best] : n \in {Cardinality(DOMAIN best)}} :
        {order[k] : k \in DOMAIN order} = DOMAIN best}

\* The names the refinement binds later start at values of their types:
\* no pair, the first position, an empty list.
InitCli ==
    /\ pc = "cli_load"
    /\ args \in CliArgs
    /\ best_by_pair = <<>> /\ pair_order = <<>> /\ pair_idx = 1
    /\ cursor = datetime_min /\ refine_list = <<>>
    /\ raw_tles = NULL /\ tles = NULL /\ valid_tles = NULL /\ positions_km = NULL
    /\ candidate_stream = NULL /\ stream_idx = NULL /\ refined = NULL /\ row_idx = NULL
    /\ events = NULL /\ event_groups = NULL /\ top_events = NULL
    /\ snapshot = NULL /\ top_conjunctions = NULL
    /\ plans_entries = NULL /\ returned = NULL
    /\ IdleGate /\ IdlePlan /\ IdleArtifacts

\* run_screening.py lines 500-510
CliLoadCatalog ==
    /\ pc = "cli_load"
    /\ \E loaded \in BOOLEAN : pc' = IF loaded THEN "cli_propagate" ELSE "exit_1"
    /\ UNCHANGED <<gate_vars, plan_vars, screen_vars, artifact_vars, call_vars>>

\* run_screening.py lines 513-522; _build_times raises ValueError for
\* dt_s <= 0 (propagate.py lines 30-31)
CliPropagate ==
    /\ pc = "cli_propagate"
    /\ IF args.dt <= 0
       THEN pc' = "exit_1"
       ELSE \E valid \in BOOLEAN : pc' = IF valid THEN "cli_candidates" ELSE "exit_1"
    /\ UNCHANGED <<gate_vars, plan_vars, screen_vars, artifact_vars, call_vars>>

\* run_screening.py line 528 and conjunction.py lines 64-92;
\* candidate_pairs_by_timestep raises ValueError for voxel_km <= 0
CliCandidates ==
    /\ pc = "cli_candidates"
    /\ IF args.voxel_km <= 0
       THEN /\ pc' = "exit_1"
            /\ UNCHANGED <<best_by_pair, pair_order, pair_idx>>
       ELSE \E best \in CliBestByPair : \E order \in CliPairOrders(best) :
               /\ best_by_pair' = best
               /\ pair_order' = order
               /\ pair_idx' = 1
               /\ pc' = "cli_refine"
    /\ UNCHANGED <<raw_tles, args, tles, valid_tles, positions_km, candidate_stream,
                   stream_idx, refined, row_idx, events, event_groups, top_events,
                   snapshot, top_conjunctions>>
    /\ UNCHANGED <<gate_vars, plan_vars, artifact_vars, call_vars>>

\* conjunction.py lines 94-107: the next key of best_by_pair
CliRefinePair ==
    /\ pc = "cli_refine"
    /\ pair_idx <= Len(pair_order)
    /\ cursor' = refine_window(best_by_pair[pair_order[pair_idx]][2]).t_start
    /\ refine_list' = <<>>
    /\ pc' = "cli_while"
    /\ UNCHANGED <<plans_entries, returned>>
    /\ UNCHANGED <<gate_vars, plan_vars, screen_vars, artifact_vars>>

\* conjunction.py lines 108-110: one turn of the while loop
CliWhileStep ==
    /\ pc = "cli_while"
    /\ cursor <= refine_window(best_by_pair[pair_order[pair_idx]][2]).t_end
    /\ refine_list' = IF Len(refine_list) < MaxTimeline
                      THEN Append(refine_list, cursor)
                      ELSE refine_list
    /\ LET advanced == cursor + args.dt_refine * TicksPerSecond
       IN  IF advanced < datetime_min
           THEN cursor' = cursor /\ pc' = "exit_1"
           ELSE cursor' = advanced /\ pc' = pc
    /\ UNCHANGED <<plans_entries, returned>>
    /\ UNCHANGED <<gate_vars, plan_vars, screen_vars, artifact_vars>>

\* conjunction.py lines 108, 111-145: the loop is left and the pair refined
CliWhileExit ==
    /\ pc = "cli_while"
    /\ LET t_end == refine_window(best_by_pair[pair_order[pair_idx]][2]).t_end
       IN  /\ cursor > t_end
           /\ refine_list' = IF refine_list[Len(refine_list)] < t_end
                             THEN Append(refine_list, t_end)
                             ELSE refine_list
    /\ pair_idx' = pair_idx + 1
    /\ pc' = "cli_refine"
    /\ UNCHANGED <<cursor, plans_entries, returned>>
    /\ UNCHANGED <<raw_tles, args, tles, valid_tles, positions_km, candidate_stream,
                   stream_idx, best_by_pair, pair_order, refined, row_idx, events,
                   event_groups, top_events, snapshot, top_conjunctions>>
    /\ UNCHANGED <<gate_vars, plan_vars, artifact_vars>>

\* conjunction.py lines 147-151 and run_screening.py lines 556-808: the
\* remaining stages iterate over lists and return 0
CliRemainingStages ==
    /\ pc = "cli_refine"
    /\ pair_idx > Len(pair_order)
    /\ pc' = "exit_0"
    /\ UNCHANGED <<gate_vars, plan_vars, screen_vars, artifact_vars, call_vars>>

NextCli ==
    \/ CliLoadCatalog
    \/ CliPropagate
    \/ CliCandidates
    \/ CliRefinePair
    \/ CliWhileStep
    \/ CliWhileExit
    \/ CliRemainingStages

SpecCli == InitCli /\ [][NextCli]_vars

SpecCliFair == SpecCli /\ WF_vars(NextCli)

CliExited == pc \in {"exit_0", "exit_1"}

CliValid == args.dt > 0 /\ args.dt_refine > 0 /\ args.voxel_km > 0

(***************************************************************************)
(* C27: for every configuration the run terminates, a run that completes    *)
(* all stages has valid values (a non-positive --dt, --dt-refine or         *)
(* --voxel-km ends in exit code 1), and the while loop that builds          *)
(* refine_times for a pair is always left.                                  *)
(***************************************************************************)
C27_RunTerminates ==
    /\ <>CliExited
    /\ [](pc = "exit_0" => CliValid)
    /\ (pc = "cli_while") ~> (pc # "cli_while")

(***************************************************************************)
(* C28: when the gate returns DEFER for an event whose TCA is still in the  *)
(* future (tca_utc > now), defer_until_utc is strictly earlier than         *)
(* tca_utc.                                                                 *)
(***************************************************************************)
C28_DeferBeforeTca ==
    (/\ GateDone
     /\ gate.decision_mode_hint = "DEFER"
     /\ parse_iso_utc(tca_utc) > now_utc) =>
        gate.defer_until_utc.iso < tca_utc

\* The manifest entry of a file as the screening run `id` wrote it.
EntryOfRun(path, id, payload) ==
    [path |-> path, sha256 |-> [sha256_of |-> _write_json("run_screening", id, payload)]]

(***************************************************************************)
(* C29: no manifest update is lost when an autonomy-loop request overlaps   *)
(* a screening run: once the most recent screening run has completed and no *)
(* request is in progress, the top_conjunctions, cesium_snapshot and        *)
(* maneuver_plans entries of artifacts_latest.json are the ones that run    *)
(* wrote.                                                                   *)
(***************************************************************************)
C29_NoLostManifestUpdate ==
    (pc = "exit_0" /\ loop_pc \in {"idle", "done", "failed"}) =>
        LET artifacts == disk[ManifestFile].payload.artifacts
        IN  /\ artifacts.top_conjunctions =
                  EntryOfRun(TopJsonFile, run_id, "TopConjunctionsArtifact")
            /\ artifacts.cesium_snapshot =
                  EntryOfRun(SnapshotFile, run_id, "CesiumSnapshot")
            /\ artifacts.maneuver_plans =
                  EntryOfRun(PlansFile, run_id, "ManeuverPlansArtifact")

(***************************************************************************)
(* SpecPlanStage: the trend_and_plans stage of a screening run and the two  *)
(* writes that follow it (run_screening.py lines 652-783), entered with the *)
(* top events the earlier stages left: at most two events with distinct     *)
(* event ids.  The local Pc series of an event (SGP4) yields one of three   *)
(* TrendMetrics records; the planner runs under one of three policies.      *)
(***************************************************************************)

StageTca == NowBase + 48 * SecondsPerHour

StageEvents ==
    {[event_id |-> id, tca_utc |-> StageTca, miss_distance_m |-> 5] :
        id \in {"EVT-5-9-2026-02-24T00:00:00Z", "EVT-5-10-2026-02-24T00:00:00Z",
                "EVT-9-10-2026-02-24T00:00:00Z"}}

StageTopEvents ==
    {evts \in UNION {[1..n -> StageEvents] : n \in {0, 1, 2}} :
        \A i, j \in DOMAIN evts : i # j => evts[i].event_id # evts[j].event_id}

\* A sustained risk, a spike near the peak, and a peak below the threshold.
StageMetrics ==
    {[pc_peak |-> 1000, pc_slope |-> 1, pc_stability |-> 100, threshold |-> 10,
      critical_override |-> 1000, time_to_tca_hours |-> 48],
     [pc_peak |-> 1000, pc_slope |-> -1, pc_stability |-> 0, threshold |-> 10,
      critical_override |-> 1000, time_to_tca_hours |-> 48],
     [pc_peak |-> 5, pc_slope |-> 0, pc_stability |-> 100, threshold |-> 10,
      critical_override |-> 0, time_to_tca_hours |-> 48]}

\* Policies under which the planner finds a feasible burn, finds none within
\* the cap, and has no candidate offset.
StagePolicies ==
    {[miss_distance_target_m |-> 10, max_delta_v_mps |-> cap,
      candidate_offsets_h |-> offsets, late_burn_minutes |-> 30] :
        cap \in {Frac(1, 2), Frac(0, 1)}, offsets \in {<<>>, <<2>>}}

\* Lines 724-749 with the feasible branch only: an infeasible plan is not
\* stored.
select_plan_feasible_only(decision_mode_hint, ev, pol) ==
    IF decision_mode_hint = "MANEUVER"
    THEN LET p == plan_min_delta_v(ev, pol)
         IN  IF p.burn_time_utc # NULL /\ p.direction # NULL /\ p.delta_v_mps # NULL
             THEN driver_selected_plan(p)
             ELSE NULL
    ELSE NULL

\* run_screening.py lines 724-749: selected_plan of one event
select_plan(decision_mode_hint, ev, pol) ==
    IF decision_mode_hint = "MANEUVER"
    THEN driver_selected_plan(plan_min_delta_v(ev, pol))
    ELSE NULL

\* run_screening.py lines 751-779: the ManeuverPlanEntry of one event
ManeuverPlanEntry(ev, trend_eval, pol) ==
    [event_id           |-> ev.event_id,
     gate_reason_code   |-> trend_eval.gate_reason_code,
     decision_mode_hint |-> trend_eval.decision_mode_hint,
     defer_until_utc    |-> trend_eval.defer_until_utc,
     maneuver_plan      |-> select_plan(trend_eval.decision_mode_hint, ev, pol)]

InitPlanStage ==
    /\ pc = "trend_and_plans"
    /\ top_events \in StageTopEvents
    /\ policy \in StagePolicies
    /\ plans_entries = <<>>
    /\ row_idx = 1
    /\ disk = [f \in {PlansFile, TopJsonFile} |-> NULL]
    /\ event = NULL /\ planned = NULL /\ selected_plan = NULL
    /\ raw_tles = NULL /\ args = NULL /\ tles = NULL /\ valid_tles = NULL
    /\ positions_km = NULL /\ candidate_stream = NULL /\ stream_idx = NULL
    /\ best_by_pair = NULL /\ pair_order = NULL /\ pair_idx = NULL /\ refined = NULL
    /\ events = NULL /\ event_groups = NULL /\ snapshot = NULL /\ top_conjunctions = NULL
    /\ run_id = NULL /\ loop_pc = NULL /\ loop_id = NULL /\ latest_manifest = NULL
    /\ returned = NULL /\ IdleLoop
    /\ IdleGate

\* run_screening.py lines 682-779: one turn of `for event in top_events`
StagePlanEvent ==
    /\ pc = "trend_and_plans"
    /\ row_idx <= Len(top_events)
    /\ \E tm \in StageMetrics :
          LET ev         == top_events[row_idx]
              trend_eval == classify_trend_gate(tm, ev.tca_utc, parse_iso_utc(NowBase), 24)
          IN  plans_entries' = dict_set(plans_entries, ev.event_id,
                                        ManeuverPlanEntry(ev, trend_eval, policy))
    /\ row_idx' = row_idx + 1
    /\ UNCHANGED <<pc, top_events, policy, disk>>
    /\ UNCHANGED <<event, planned, selected_plan, raw_tles, args, tles, valid_tles,
                   positions_km, candidate_stream, stream_idx, best_by_pair, pair_order,
                   pair_idx, refined, events, event_groups, snapshot, top_conjunctions,
                   run_id, loop_pc, loop_id, latest_manifest, returned, loop_vars>>
    /\ UNCHANGED gate_vars

\* run_screening.py line 780, _write_maneuver_plans_output
StageWriteManeuverPlans ==
    /\ pc = "trend_and_plans"
    /\ row_idx > Len(top_events)
    /\ disk' = [disk EXCEPT ![PlansFile] =
                   [event_count |-> Cardinality(DOMAIN plans_entries),
                    plans_by_event_id |-> plans_entries]]
    /\ pc' = "outputs"
    /\ UNCHANGED <<top_events, policy, plans_entries, row_idx>>
    /\ UNCHANGED <<event, planned, selected_plan, raw_tles, args, tles, valid_tles,
                   positions_km, candidate_stream, stream_idx, best_by_pair, pair_order,
                   pair_idx, refined, events, event_groups, snapshot, top_conjunctions,
                   run_id, loop_pc, loop_id, latest_manifest, returned, loop_vars>>
    /\ UNCHANGED gate_vars

\* run_screening.py line 783, _write_top_outputs
StageWriteTopOutputs ==
    /\ pc = "outputs"
    /\ disk' = [disk EXCEPT ![TopJsonFile] =
                   [event_count |-> Len(top_events), events |-> top_events]]
    /\ pc' = "manifest"
    /\ UNCHANGED <<top_events, policy, plans_entries, row_idx>>
    /\ UNCHANGED <<event, planned, selected_plan, raw_tles, args, tles, valid_tles,
                   positions_km, candidate_stream, stream_idx, best_by_pair, pair_order,
                   pair_idx, refined, events, event_groups, snapshot, top_conjunctions,
                   run_id, loop_pc, loop_id, latest_manifest, returned, loop_vars>>
    /\ UNCHANGED gate_vars

NextPlanStage == StagePlanEvent \/ StageWriteManeuverPlans \/ StageWriteTopOutputs

SpecPlanStage == InitPlanStage /\ [][NextPlanStage]_vars

(***************************************************************************)
(* C30: in the artifacts of one screening run every event of                *)
(* top_conjunctions.json has exactly one entry of maneuver_plans.json,      *)
(* stored under its event_id, the two event_count values agree, and an      *)
(* entry's maneuver_plan is non-null exactly when its decision_mode_hint is *)
(* MANEUVER.                                                                *)
(***************************************************************************)
C30_PlansMatchEvents ==
    pc = "manifest" =>
        LET top   == disk[TopJsonFile]
            plans == disk[PlansFile]
            by_id == plans.plans_by_event_id
        IN  /\ \A k \in DOMAIN top.events :
                  /\ top.events[k].event_id \in DOMAIN by_id
                  /\ by_id[top.events[k].event_id].event_id = top.events[k].event_id
            /\ \A id \in DOMAIN by_id :
                  Cardinality({k \in DOMAIN top.events : top.events[k].event_id = id}) = 1
            /\ top.event_count = Len(top.events)
            /\ plans.event_count = top.event_count
            /\ \A id \in DOMAIN by_id :
                  (by_id[id].maneuver_plan # NULL) <=> (by_id[id].decision_mode_hint = "MANEUVER")

\* Two events were written, one deferred and one to maneuver for which the
\* planner found no feasible burn.
C30_Witness ==
    /\ pc = "manifest"
    /\ disk[TopJsonFile].event_count = 2
    /\ \E id \in DOMAIN plans_entries :
          /\ plans_entries[id].decision_mode_hint = "MANEUVER"
          /\ plans_entries[id].maneuver_plan.burn_time_utc = [str |-> ""]
    /\ \E id \in DOMAIN plans_entries : plans_entries[id].decision_mode_hint = "DEFER"

====
